---- MODULE Spec2Model ----
(***************************************************************************)
(* tcp-over-quic: a TCP byte stream tunnelled in one bidirectional QUIC    *)
(* stream between the client (ingress) and the concentrator (egress).      *)
(*                                                                         *)
(* SessionSpec: the session of one side (its handshake, its two bridge      *)
(* workers, its shutdown scope) against any QUIC peer and any TCP peer.    *)
(* TunnelSpec: the client's session and the concentrator's session of one  *)
(* tunnelled connection, joined by their QUIC stream, byte by byte.        *)
(* ProcessSpec: the tasks of one process (main, Listener, connection        *)
(* handlers, sessions, bridge workers) and their nested shutdown scopes.   *)
(***************************************************************************)
EXTENDS Integers, Sequences, FiniteSets, TLC

\* ------------------------------------------------------------------ bounds
\* Payload bytes a TCP peer (the local client, the TCP destination) writes.
MaxTcpPayload == 1
\* Payload bytes a remote QUIC peer writes after its handshake message.
MaxQuicPayload == 2

\* QUIC connections the concentrator accepts.
MaxConns == 1
\* Streams (sessions) the process spawns.
MaxStreams == 2

\* Sockets the client's listener accepts.
MaxAccepts == 2
\* SessionSpec: resets of the TCP connection, shutdowns of the parent scope,
\* resets and stops of the stream by the remote QUIC peer, in one behaviour.
MaxFaults == 2
\* FairSessionSpec: the same faults, in one behaviour.
MaxFairFaults == 1
\* TunnelSpec: resets of a TCP connection and shutdowns of a parent scope.
MaxTunnelFaults == 1
\* TunnelSpec: payload bytes the two TCP peers of the tunnel write, together.
MaxTunnelPayload == 1

\* ------------------------------------------------------ program constants
TYPE_TCP_CONNECT == 0
TYPE_TCP_CONNECT_OK == 1
TYPE_ERROR == 2
TYPE_END == 255
ERROR_TYPE_PROTOCOL_VIOLATION == 0
ERROR_TYPE_ICMP_PKT_RECV == 1
ERROR_TYPE_MALFORMED_TLV_RECV == 2
ERROR_TYPE_NETWORK_FAILURE == 3
TCP_BUF_SIZE == 1480
QUIC_BUF_SIZE == 1480
\* let mut buf = [0; 20] of run_client_conn
CLIENT_BUF_SIZE == 20
\* let mut buf = [0; 1024] of run_concentrator_conn
CONCENTRATOR_BUF_SIZE == 1024
\* the length new_tcp_connect requires of its buffer, writes and returns
TCP_CONNECT_LEN == 20

\* ------------------------------------------------------------- byte helpers
Min(a, b) == IF a < b THEN a ELSE b

Zeros(n) == [i \in 1..n |-> 0]

\* buf[off .. off+len(bytes)].copy_from_slice(bytes), off counted from 0
copy_from_slice(buf, off, bytes) ==
    SubSeq(buf, 1, off) \o bytes \o SubSeq(buf, off + Len(bytes) + 1, Len(buf))

\* u16::to_be_bytes
to_be_bytes(p) == << p \div 256, p % 256 >>

\* u16::from_be_bytes
from_be_bytes(b) == b[1] * 256 + b[2]

IsPrefix(s, t) == Len(s) <= Len(t) /\ SubSeq(t, 1, Len(s)) = s

\* ------------------------------------------------------------ socket addresses
\* A SocketAddr: v4 tells the family, ip holds the 4 or 16 address octets.
V4(a, b, c, d, p) == [v4 |-> TRUE, ip |-> << a, b, c, d >>, port |-> p]
V6(octets, p) == [v4 |-> FALSE, ip |-> octets, port |-> p]

\* to_ipv6_mapped that gives the IPv4-compatible form ::a.b.c.d.
Mutant_to_ipv6_mapped(ip) == Zeros(12) \o ip

\* Ipv4Addr::to_ipv6_mapped: ::ffff:a.b.c.d
to_ipv6_mapped(ip) == Zeros(10) \o << 255, 255 >> \o ip

\* is_multicast that applies the IPv6 test to every address.
Mutant_is_multicast(addr) == addr.ip[1] = 255

\* IpAddr::is_multicast: 224.0.0.0/4 or ff00::/8
is_multicast(addr) ==
    IF addr.v4 THEN addr.ip[1] \in 224..239 ELSE addr.ip[1] = 255

\* The destinations the ingress may be configured with.
Destinations ==
    { V4(10, 0, 0, 1, 8080),
      V4(224, 0, 0, 1, 1) }

\* IpAddr::is_loopback: 127.0.0.0/8 or ::1 (the test of tlv.rs line 23, which
\* is commented out).
is_loopback(addr) ==
    IF addr.v4 THEN addr.ip[1] = 127 ELSE addr.ip = Zeros(15) \o << 1 >>

\* ------------------------------------------------------------------- tlv.rs
\* new_tcp_connect with the ensure! of line 23 in force.
Mutant_new_tcp_connect(buf, addr) ==
    IF Len(buf) < TCP_CONNECT_LEN \/ is_loopback(addr) \/ is_multicast(addr)
    THEN [ok |-> FALSE, n |-> 0, buf |-> buf]
    ELSE [ok |-> TRUE, n |-> 20,
          buf |-> copy_from_slice(buf, 0,
                     << TYPE_TCP_CONNECT, 20 >> \o to_be_bytes(addr.port)
                        \o (IF addr.v4 THEN to_ipv6_mapped(addr.ip) ELSE addr.ip))]

\* Each encoder returns [ok, n, buf]: Result<usize> and the buffer afterwards.
new_tcp_connect(buf, addr) ==
    IF Len(buf) < TCP_CONNECT_LEN \/ is_multicast(addr)
    THEN [ok |-> FALSE, n |-> 0, buf |-> buf]
    ELSE [ok |-> TRUE, n |-> 20,
          buf |-> copy_from_slice(buf, 0,
                     << TYPE_TCP_CONNECT, 20 >> \o to_be_bytes(addr.port)
                        \o (IF addr.v4 THEN to_ipv6_mapped(addr.ip) ELSE addr.ip))]

new_tcp_connect_ok(buf) ==
    [ok |-> TRUE, n |-> 2,
     buf |-> copy_from_slice(buf, 0, << TYPE_TCP_CONNECT_OK, 2 >>)]

new_end_tlv(buf) ==
    [ok |-> TRUE, n |-> 2, buf |-> copy_from_slice(buf, 0, << TYPE_END, 2 >>)]

new_error_tlv(buf) ==
    [ok |-> TRUE, n |-> 4,
     buf |-> copy_from_slice(
                 copy_from_slice(copy_from_slice(buf, 0, << TYPE_ERROR >>), 2,
                                 to_be_bytes(ERROR_TYPE_PROTOCOL_VIOLATION)),
                 1, << 4 >>)]

is_tcp_connect_ok(buf) == buf[1] = TYPE_TCP_CONNECT_OK

\* parse_tcp_connect that reads the port little-endian.
Mutant_parse_tcp_connect(buf) ==
    IF buf[1] # TYPE_TCP_CONNECT
    THEN [ok |-> FALSE, addr |-> V6(Zeros(16), 0)]
    ELSE [ok |-> TRUE,
          addr |-> V6(SubSeq(buf, 5, 20), from_be_bytes(<< buf[4], buf[3] >>))]

\* Result<SocketAddr>: [ok, addr]
parse_tcp_connect(buf) ==
    IF buf[1] # TYPE_TCP_CONNECT
    THEN [ok |-> FALSE, addr |-> V6(Zeros(16), 0)]
    ELSE [ok |-> TRUE,
          addr |-> V6(SubSeq(buf, 5, 20), from_be_bytes(SubSeq(buf, 3, 4)))]

\* -------------------------------------------------------------------- state
Sides == { "I", "E" }
Peer(s) == IF s = "I" THEN "E" ELSE "I"

\* The payload the TCP peer of side s writes: the local client (side I) and
\* the TCP destination (side E).  No payload byte equals a byte of a TLV.
Payload(s) == [i \in 1..MaxTcpPayload |-> (IF s = "I" THEN 100 ELSE 200) + i]

VARIABLES
    tcp_dest_addr,  \* client::Listener.tcp_dest_addr
    sess,           \* per side, the session task: pc, result (of the task),
                    \* hs (how its handshake ended), bridged (workers spawned)
    t2q,            \* per side, the TcpToQuic worker: pc, the chunk in its
                    \* buf, why it left its loop
    q2t,            \* per side, the QuicToTcp worker: likewise
    scope,          \* per side: the parent's broadcaster (closed), the session's
                    \* own notify_shutdown (closed) and the holders of clones
                    \* of the session's shutdown_complete_tx
    quic,           \* per side, the QUIC stream half that side sends on:
                    \* written bytes, bytes the peer has read, how it ended,
                    \* whether the peer stopped it
    tcp,            \* per side, the TCP socket of that side: rx bytes pending
                    \* from the TCP peer, the peer's state, eof (the peer's
                    \* FIN was received), err (the socket holds an error not
                    \* yet reported), how many payload bytes the peer wrote,
                    \* tx bytes written to the socket, shut (the write
                    \* direction was shut down: a FIN was sent)
    ops,            \* per side, the close calls the code makes: finish, reset,
                    \* stop, shutdown of the write half, shutdown(Both); and
                    \* the closes a dropped half performs: dropSend (a
                    \* SendStream dropped neither finished nor reset),
                    \* dropWr (the shutdown(Write) of a dropped write half),
                    \* close (the close of the socket once the TcpStream,
                    \* or the second of its two halves, is dropped)
    remote_addr,    \* egress: the address handed to TcpStream::connect
    script,         \* SessionSpec: the messages the remote QUIC peer has yet
                    \* to write
    role,           \* ProcessSpec: which binary runs, client or concentrator
    main,           \* position of main
    listener,       \* position of Listener::run
    root,           \* the process scope: main's notify_shutdown (closed),
                    \* the Listener's own shutdown_complete_tx (owner) and the
                    \* tasks that hold a clone of it
    handler,        \* per connection, the ConnectionHandler task
    conn_scope,     \* per connection, the scope ConnectionHandler::run creates
    stream,         \* per stream, the session task (Connection::run_*_conn)
    stream_scope,   \* per stream, the scope the session creates
    worker,         \* per stream, its two bridge workers
    acceptor,       \* AcceptSpec: client::Listener::run and accept: pc, the
                    \* local backoff, failures and attempts of the current
                    \* call, sockets accepted and sessions spawned so far,
                    \* why run returned, and the log of what
                    \* happened (0: a socket was accepted, n > 0: a sleep of
                    \* n seconds).  ProcessSpec: the backoff of the accept
                    \* call in progress, 0 when there is none
    codec           \* TlvSpec: one use of the TLV functions of tlv.rs: the
                    \* address, the caller's buffer, the encoder's result
                    \* and the parser's result

\* The session of one connection, byte by byte.
bridge == << tcp_dest_addr, sess, t2q, q2t, scope, quic, tcp, ops, remote_addr,
             script >>

\* The tasks of the process and their shutdown scopes.
tree == << role, main, listener, root, handler, conn_scope, stream,
           stream_scope, worker >>

\* The acceptor loop of the client and the TLV functions, each on its own.
aux == << acceptor, codec >>

vars == << bridge, tree, aux >>

NoAddr == V6(<< >>, 0)

\* The state of side s when its session task starts: the client's session
\* with the accepted TCP socket, the concentrator's session with no socket yet.
InitStateFor(programs, dests) ==
    /\ tcp_dest_addr \in dests
    /\ sess = [s \in Sides |->
                 [pc |-> (IF s \notin programs THEN "peer"
                          ELSE IF s = "I" THEN "connect" ELSE "read"),
                  result |-> "", hs |-> "", bridged |-> FALSE]]
    /\ t2q = [s \in Sides |-> [pc |-> "none", buf |-> << >>, why |-> ""]]
    /\ q2t = [s \in Sides |-> [pc |-> "none", buf |-> << >>, why |-> ""]]
    /\ scope = [s \in Sides |->
                  [parentClosed |-> FALSE, notifyClosed |-> FALSE,
                   tx |-> { "owner" }]]
    /\ quic = [s \in Sides |->
                 [written |-> << >>, nread |-> 0, end |-> "open",
                  stopped |-> FALSE]]
    /\ tcp = [s \in Sides |->
                [rx |-> << >>, peer |-> (IF s = "I" THEN "open" ELSE "none"),
                 eof |-> FALSE, err |-> FALSE, sent |-> 0, tx |-> << >>,
                 shut |-> FALSE]]
    /\ ops = [s \in Sides |->
                [finish |-> 0, reset |-> 0, stop |-> 0, shutdownWr |-> 0,
                 shutdownBoth |-> 0, dropSend |-> 0, dropWr |-> 0, close |-> 0]]
    /\ remote_addr = NoAddr

InitState(programs) == InitStateFor(programs, Destinations)

\* ------------------------------------------------- state of the process tree
Conns == 1..MaxConns
Streams == 1..MaxStreams
Workers == { "t2q", "q2t" }

\* broadcast::channel(1) and mpsc::channel(1) of one scope: the broadcaster is
\* open, the owner holds shutdown_complete_tx, no task holds a clone.
NewScope == [closed |-> FALSE, owner |-> TRUE, tasks |-> {}]

\* shutdown_complete_rx.recv() returns None: every sender has been dropped.
RendezvousDone(sc) == ~sc.owner /\ sc.tasks = {}

\* The process after main built its Listener (bin/client.rs 73-114,
\* bin/concentrator.rs 56-97): nothing is spawned yet.
TreeInit(roles) ==
    /\ role \in roles
    /\ main = "select"
    /\ listener = "accept"
    /\ root = NewScope
    /\ handler = [h \in Conns |->
                    [pc |-> "none", why |-> "", result |-> "", exhausted |-> FALSE]]
    /\ conn_scope = [h \in Conns |-> NewScope]
    /\ stream = [i \in Streams |->
                   [pc |-> "none", parent |-> 0, observed |-> FALSE,
                    bridged |-> FALSE, result |-> ""]]
    /\ stream_scope = [i \in Streams |-> NewScope]
    /\ worker = [i \in Streams |->
                   [w \in Workers |-> [pc |-> "none", why |-> "", result |-> ""]]]

\* ------------------------------------ state of the acceptor and of the codec
NoResult == [ok |-> FALSE, n |-> 0, buf |-> << >>]

\* Listener::run is about to call accept for the first time; no TLV function
\* has been called on the buffer filled with byte fill.
AcceptorStart ==
    [pc |-> "run", backoff |-> 0, failures |-> 0, attempts |-> 0,
     accepted |-> 0, spawned |-> 0, why |-> "", log |-> << >>]

AcceptorInit == acceptor = AcceptorStart

CodecInit(addrs, sizes, fills) ==
    \E a \in addrs, n \in sizes, f \in fills :
       codec = [pc |-> "new", addr |-> a, buf |-> [i \in 1..n |-> f],
                enc |-> NoResult, dec |-> [ok |-> FALSE, addr |-> V6(<< >>, 0)]]

AuxInit ==
    /\ AcceptorInit
    /\ CodecInit({ V4(10, 0, 0, 1, 8080) }, { CLIENT_BUF_SIZE }, { 0 })

\* ----------------------------------------------------- transport interfaces
\* The counts a read may return when avail bytes have arrived and the buffer
\* holds cap: any count from 1 to what has arrived (any), or all that has
\* arrived, as much as the buffer holds.  The one read of a handshake returns
\* any count.  A worker's read returns all that has arrived: the bytes arrive
\* write by write, so every split between two writes is a chunking it sees.
ReadSizes(avail, cap, any) ==
    { n \in 1..Min(avail, cap) : any \/ n = Min(avail, cap) }

\* quinn::RecvStream::read on the stream that side x sends on, into a buffer
\* of cap bytes.  Outcomes: -1 is Err (the stream was reset), 0 is Ok(None)
\* (the stream is finished and drained), n > 0 is Ok(Some(n)).  No outcome:
\* the read is pending.
QuicAvail(x) == Len(quic[x].written) - quic[x].nread

QuicReadOutcomes(x, cap, any) ==
    IF quic[x].end = "rst" THEN { -1 }
    ELSE IF QuicAvail(x) > 0 THEN ReadSizes(QuicAvail(x), cap, any)
    ELSE IF quic[x].end = "fin" THEN { 0 }
    ELSE { }

\* The n bytes a read of stream x returns.
QuicChunk(x, n) == SubSeq(quic[x].written, quic[x].nread + 1, quic[x].nread + n)

\* A write on the send half of side x fails once the peer stopped the stream.
QuicWriteFails(x) == quic[x].stopped

\* A SendStream dropped without finish or reset: the peer's reads end with
\* a finish or with a reset, according to the quinn release in use.
DropSendEnds(x) ==
    IF quic[x].end = "open" THEN { "fin", "rst" } ELSE { quic[x].end }

\* tokio AsyncReadExt::read on the TCP read half of side s: n > 0 is Ok(n),
\* 0 is Ok(0), -1 is Err.  The bytes that arrived are delivered first, those
\* that arrived before a reset too.  With nothing left to deliver: Ok(0) once
\* the peer's FIN was received; Err if the socket holds the error of a reset
\* that no call has reported yet, and that read takes the error; Ok(0) on a
\* reset socket whose error was already reported.
TcpReadOutcomes(s) ==
    IF Len(tcp[s].rx) > 0 THEN ReadSizes(Len(tcp[s].rx), TCP_BUF_SIZE, FALSE)
    ELSE IF tcp[s].eof THEN { 0 }
    ELSE IF tcp[s].err THEN { -1 }
    ELSE IF tcp[s].peer = "rst" THEN { 0 }
    ELSE { }

\* A write or a shutdown on the TCP socket of side s fails once the peer
\* reset the connection; the first write that fails takes the socket's error
\* if no read has.
TcpWriteFails(s) == tcp[s].peer = "rst"

\* The OwnedWriteHalf of a worker dropped at its return: how many
\* shutdown(Write) calls the drop issues.  One; after the worker's own call
\* of shutdown (shut), whether that call failed or not, one or none according
\* to the tokio release in use.
DropWriteHalf(shut) == IF shut THEN { 0, 1 } ELSE { 1 }

\* ------------------------------------------------- client: run_client_conn
\* The 20-byte buf of run_client_conn after each encoder call.
ClientBufConnect == new_tcp_connect(Zeros(CLIENT_BUF_SIZE), tcp_dest_addr)
ClientBufEnd == new_tcp_connect_ok(ClientBufConnect.buf)

\* The side holds a TCP socket: the client from the start, the concentrator
\* once its connect succeeded.
HasSocket(s) == tcp[s].peer # "none"

\* The session task of side s returns before it spawned its workers: its
\* locals are dropped (the stream halves, the TCP socket, notify_shutdown).
\* n is the number of bytes its last read consumed, e how its send half ends,
\* both the number of shutdown(Both) calls it made on the TCP socket.  The
\* dropped TcpStream is closed: on a connection its peer has not reset the
\* close sends the FIN, unless bytes are left unread in the socket.
ReturnEarly(s, hs, res, n, e, both) ==
    /\ sess' = [sess EXCEPT ![s].pc = "done", ![s].hs = hs, ![s].result = res]
    /\ scope' = [scope EXCEPT ![s].notifyClosed = TRUE, ![s].tx = { }]
    /\ quic' = [quic EXCEPT ![s].end = e, ![Peer(s)].stopped = TRUE,
                            ![Peer(s)].nread = @ + n]
    /\ ops' = [ops EXCEPT ![s].shutdownBoth = @ + both, ![s].dropSend = @ + 1,
                          ![s].close = @ + (IF HasSocket(s) THEN 1 ELSE 0)]
    /\ tcp' = [tcp EXCEPT ![s].shut =
                  @ \/ (HasSocket(s) /\ ~TcpWriteFails(s)
                           /\ (both = 1 \/ tcp[s].rx = << >>))]

\* Lines 48-57: encode TCP_CONNECT and write it; an encoder error ends the
\* session with Ok, a write error is logged and ignored.
run_client_conn_connect ==
    /\ sess["I"].pc = "connect"
    /\ \E e \in DropSendEnds("I") :
         IF ~ClientBufConnect.ok
         THEN /\ ReturnEarly("I", "encode_error", "ok", 0, e, 0)
              /\ UNCHANGED << aux, tree, script, tcp_dest_addr, t2q, q2t, remote_addr >>
         ELSE /\ sess' = [sess EXCEPT !["I"].pc = "end"]
              /\ quic' = IF QuicWriteFails("I") THEN quic
                         ELSE [quic EXCEPT !["I"].written =
                                  @ \o SubSeq(ClientBufConnect.buf, 1, ClientBufConnect.n)]
              /\ UNCHANGED << aux, tree, script, tcp_dest_addr, t2q, q2t, scope, tcp, ops, remote_addr >>

\* Lines 59-67: "End TLV": encode with new_tcp_connect_ok and write it.
run_client_conn_end ==
    /\ sess["I"].pc = "end"
    /\ sess' = [sess EXCEPT !["I"].pc = "reply"]
    /\ quic' = IF QuicWriteFails("I") THEN quic
               ELSE [quic EXCEPT !["I"].written =
                        @ \o SubSeq(ClientBufEnd.buf, 1, ClientBufEnd.n)]
    /\ UNCHANGED << aux, tree, script, tcp_dest_addr, t2q, q2t, scope, tcp, ops, remote_addr >>

\* The workers of side s are spawned and the session drops its own
\* shutdown_complete_tx (lines 90-118, 176-204).
Spawn(s) ==
    /\ sess' = [sess EXCEPT ![s].pc = "select", ![s].hs = "ok", ![s].bridged = TRUE]
    /\ t2q' = [t2q EXCEPT ![s].pc = "select"]
    /\ q2t' = [q2t EXCEPT ![s].pc = "select"]
    /\ scope' = [scope EXCEPT ![s].tx = { "q2t", "t2q" }]

\* Lines 69-118: one read of the reply into buf; Err, None or a first byte
\* other than TCP_CONNECT_OK shut the TCP socket down (Both) and end the
\* session, with the error of the shutdown if it fails; otherwise the
\* workers are spawned.
run_client_conn_reply ==
    /\ sess["I"].pc = "reply"
    /\ \E o \in QuicReadOutcomes("E", CLIENT_BUF_SIZE, TRUE), e \in DropSendEnds("I") :
         LET buf == copy_from_slice(ClientBufEnd.buf, 0, QuicChunk("E", o)) IN
         IF o <= 0 \/ ~is_tcp_connect_ok(SubSeq(buf, 1, o))
         THEN /\ ReturnEarly("I",
                              IF o < 0 THEN "read_error" ELSE IF o = 0 THEN "eof" ELSE "not_ok",
                              IF TcpWriteFails("I") THEN "err" ELSE "ok",
                              IF o > 0 THEN o ELSE 0, e, 1)
              /\ UNCHANGED << aux, tree, script, tcp_dest_addr, t2q, q2t, remote_addr >>
         ELSE /\ Spawn("I")
              /\ quic' = [quic EXCEPT !["E"].nread = @ + o]
              /\ UNCHANGED << aux, tree, script, tcp_dest_addr, tcp, ops, remote_addr >>

\* ----------------------------------- concentrator: run_concentrator_conn
\* The 1024-byte buf after the first read stored chunk in it.
ConcentratorBuf(chunk) ==
    copy_from_slice(Zeros(CONCENTRATOR_BUF_SIZE), 0, chunk)

\* Lines 137-158: one read of the stream, then parse_tcp_connect on the whole
\* buffer; Err, None and a parse error end the session with Ok.
run_concentrator_conn_read ==
    /\ sess["E"].pc = "read"
    /\ \E o \in QuicReadOutcomes("I", CONCENTRATOR_BUF_SIZE, TRUE), e \in DropSendEnds("E") :
         LET r == parse_tcp_connect(ConcentratorBuf(QuicChunk("I", IF o > 0 THEN o ELSE 0))) IN
         IF o <= 0 \/ ~r.ok
         THEN /\ ReturnEarly("E",
                              IF o < 0 THEN "read_error" ELSE IF o = 0 THEN "eof" ELSE "parse_error",
                              "ok", IF o > 0 THEN o ELSE 0, e, 0)
              /\ UNCHANGED << aux, tree, script, tcp_dest_addr, t2q, q2t, remote_addr >>
         ELSE /\ sess' = [sess EXCEPT !["E"].pc = "dial"]
              /\ quic' = [quic EXCEPT !["I"].nread = @ + o]
              /\ remote_addr' = r.addr
              /\ UNCHANGED << aux, tree, script, tcp_dest_addr, t2q, q2t, scope, tcp, ops >>

\* Lines 159-166 and 172: the awaited TcpStream::connect returns, with the
\* TCP socket of the destination or with an error; the session goes on to
\* write its reply.
run_concentrator_conn_dial ==
    /\ sess["E"].pc = "dial"
    /\ \E connected \in BOOLEAN :
         /\ sess' = [sess EXCEPT !["E"].pc = IF connected THEN "write_ok" ELSE "write_error"]
         /\ tcp' = [tcp EXCEPT !["E"].peer = IF connected THEN "open" ELSE @]
    /\ UNCHANGED << aux, tree, script, tcp_dest_addr, t2q, q2t, scope, quic, ops, remote_addr >>

\* Lines 167-169 and 173-204: the awaited write of the reply returns.
\* SendStream::write may accept only a prefix of the slice (k bytes), and its
\* error is returned with `?`, the connected TCP socket dropped with the
\* session's locals.  After new_error_tlv the session ends with Ok; after
\* TCP_CONNECT_OK the workers are spawned.
run_concentrator_conn_write ==
    /\ sess["E"].pc \in { "write_ok", "write_error" }
    /\ \E e \in DropSendEnds("E") :
         LET connected == sess["E"].pc = "write_ok"
             buf == ConcentratorBuf(SubSeq(quic["I"].written, 1, quic["I"].nread))
             tlv == IF connected THEN new_tcp_connect_ok(buf) ELSE new_error_tlv(buf)
         IN
         \E k \in 1..tlv.n :
            IF QuicWriteFails("E")
            THEN /\ ReturnEarly("E", "write_error", "err", 0, e, 0)
                 /\ UNCHANGED << aux, tree, script, tcp_dest_addr, t2q, q2t, remote_addr >>
            ELSE IF ~connected
            THEN /\ sess' = [sess EXCEPT !["E"].pc = "done", !["E"].hs = "dial_error",
                                !["E"].result = "ok"]
                 /\ scope' = [scope EXCEPT !["E"].notifyClosed = TRUE, !["E"].tx = { }]
                 /\ quic' = [quic EXCEPT !["E"].written = @ \o SubSeq(tlv.buf, 1, k),
                                !["E"].end = e, !["I"].stopped = TRUE]
                 /\ ops' = [ops EXCEPT !["E"].dropSend = @ + 1]
                 /\ UNCHANGED << aux, tree, script, tcp_dest_addr, t2q, q2t, tcp, remote_addr >>
            ELSE /\ Spawn("E")
                 /\ quic' = [quic EXCEPT !["E"].written = @ \o SubSeq(tlv.buf, 1, k)]
                 /\ UNCHANGED << aux, tree, script, tcp_dest_addr, tcp, ops, remote_addr >>

\* ------------------------------------------- the session scope (both sides)
\* Lines 119-121 and 205-207: self.shutdown.recv() resolves once the parent
\* dropped its broadcaster; the session drops notify_shutdown and awaits the
\* rendezvous.
session_shutdown(s) ==
    /\ sess[s].pc = "select"
    /\ scope[s].parentClosed
    /\ sess' = [sess EXCEPT ![s].pc = "wait"]
    /\ scope' = [scope EXCEPT ![s].notifyClosed = TRUE]
    /\ UNCHANGED << aux, tree, script, tcp_dest_addr, t2q, q2t, quic, tcp, ops, remote_addr >>

\* session_complete that does not wait for the workers' senders.
Mutant_session_complete(s) ==
    /\ sess[s].pc \in { "select", "wait" }
    /\ sess' = [sess EXCEPT ![s].pc = "done", ![s].result = "ok"]
    /\ scope' = [scope EXCEPT ![s].notifyClosed = TRUE]
    /\ UNCHANGED << aux, tree, script, tcp_dest_addr, t2q, q2t, quic, tcp, ops, remote_addr >>

\* Lines 122-126 and 208-212: shutdown_complete_rx.recv() returns None once
\* every clone of shutdown_complete_tx is dropped; the session returns Ok and
\* its locals are dropped.
session_complete(s) ==
    /\ sess[s].pc \in { "select", "wait" }
    /\ scope[s].tx = { }
    /\ sess' = [sess EXCEPT ![s].pc = "done", ![s].result = "ok"]
    /\ scope' = [scope EXCEPT ![s].notifyClosed = TRUE]
    /\ UNCHANGED << aux, tree, script, tcp_dest_addr, t2q, q2t, quic, tcp, ops, remote_addr >>

\* ------------------------------------------------------- TcpToQuic::handle
\* TcpToQuicReturn that also signals the session's broadcaster.
Mutant_TcpToQuicReturn(s, why, call) ==
    /\ t2q' = [t2q EXCEPT ![s].pc = "done", ![s].buf = << >>, ![s].why = why]
    /\ scope' = [scope EXCEPT ![s].tx = @ \ { "t2q" }, ![s].notifyClosed = TRUE]
    /\ \E e \in (IF call = "reset" THEN { "rst" } ELSE DropSendEnds(s)) :
         /\ quic' = [quic EXCEPT ![s].end = e]
         /\ ops' = [ops EXCEPT
                      ![s].reset = @ + (IF call = "reset" THEN 1 ELSE 0),
                      ![s].dropSend = @ + (IF call # "reset" /\ quic[s].end = "open"
                                           THEN 1 ELSE 0),
                      ![s].close = @ + (IF q2t[s].pc = "done" THEN 1 ELSE 0)]

\* The worker returns, after the call it made on its way out (reset, or
\* none): the task ends, its clone of shutdown_complete_tx is dropped with
\* it, and so are quic_send and tcp_read; a send half dropped neither
\* finished nor reset is ended by the drop, and the socket is closed if
\* tcp_write is dropped already.
TcpToQuicReturn(s, why, call) ==
    /\ t2q' = [t2q EXCEPT ![s].pc = "done", ![s].buf = << >>, ![s].why = why]
    /\ scope' = [scope EXCEPT ![s].tx = @ \ { "t2q" }]
    /\ \E e \in (IF call = "reset" THEN { "rst" } ELSE DropSendEnds(s)) :
         /\ quic' = [quic EXCEPT ![s].end = e]
         /\ ops' = [ops EXCEPT
                      ![s].reset = @ + (IF call = "reset" THEN 1 ELSE 0),
                      ![s].dropSend = @ + (IF call # "reset" /\ quic[s].end = "open"
                                           THEN 1 ELSE 0),
                      ![s].close = @ + (IF q2t[s].pc = "done" THEN 1 ELSE 0)]

\* Lines 224-251: the read branch of the select.  Ok(0): finish is called
\* and awaited; Ok(n): the n bytes are in tcp_buf and write_all is awaited;
\* Err: the read took the socket's error, reset(0) and return.
TcpToQuic_read(s) ==
    /\ t2q[s].pc = "select"
    /\ \E o \in TcpReadOutcomes(s) :
         IF o > 0
         THEN /\ t2q' = [t2q EXCEPT ![s].pc = "write",
                            ![s].buf = SubSeq(tcp[s].rx, 1, o)]
              /\ tcp' = [tcp EXCEPT ![s].rx = SubSeq(@, o + 1, Len(@))]
              /\ UNCHANGED << aux, tree, script, tcp_dest_addr, sess, q2t, scope, quic, ops, remote_addr >>
         ELSE IF o = 0
         THEN /\ t2q' = [t2q EXCEPT ![s].pc = "finishing", ![s].why = "eof"]
              /\ ops' = [ops EXCEPT ![s].finish = @ + 1]
              /\ quic' = [quic EXCEPT ![s].end = "fin"]
              /\ UNCHANGED << aux, tree, script, tcp_dest_addr, sess, q2t, scope, tcp, remote_addr >>
         ELSE /\ TcpToQuicReturn(s, "tcp_read_error", "reset")
              /\ tcp' = [tcp EXCEPT ![s].err = FALSE]
              /\ UNCHANGED << aux, tree, script, tcp_dest_addr, sess, q2t, remote_addr >>

\* Lines 236-241: write_all of the chunk completes; on error the worker
\* returns, and its send half is dropped neither finished nor reset.
TcpToQuic_write(s) ==
    /\ t2q[s].pc = "write"
    /\ IF QuicWriteFails(s)
       THEN /\ TcpToQuicReturn(s, "quic_write_error", "none")
            /\ UNCHANGED << aux, tree, script, tcp_dest_addr, sess, q2t, tcp, remote_addr >>
       ELSE /\ t2q' = [t2q EXCEPT ![s].pc = "select", ![s].buf = << >>]
            /\ quic' = [quic EXCEPT ![s].written = @ \o t2q[s].buf]
            /\ UNCHANGED << aux, tree, script, tcp_dest_addr, sess, q2t, scope, tcp, ops, remote_addr >>

\* TcpToQuic_shutdown that resets the stream.
Mutant_TcpToQuic_shutdown(s) ==
    /\ t2q[s].pc = "select"
    /\ scope[s].notifyClosed
    /\ t2q' = [t2q EXCEPT ![s].pc = "finishing", ![s].why = "shutdown"]
    /\ ops' = [ops EXCEPT ![s].reset = @ + 1]
    /\ quic' = [quic EXCEPT ![s].end = "rst"]
    /\ UNCHANGED << aux, tree, script, tcp_dest_addr, sess, q2t, scope, tcp, remote_addr >>

\* Lines 255-257: the shutdown branch of the select: finish is called and
\* awaited.
TcpToQuic_shutdown(s) ==
    /\ t2q[s].pc = "select"
    /\ scope[s].notifyClosed
    /\ t2q' = [t2q EXCEPT ![s].pc = "finishing", ![s].why = "shutdown"]
    /\ ops' = [ops EXCEPT ![s].finish = @ + 1]
    /\ quic' = [quic EXCEPT ![s].end = "fin"]
    /\ UNCHANGED << aux, tree, script, tcp_dest_addr, sess, q2t, scope, tcp, remote_addr >>

\* Lines 229-232 and 257-260: the awaited finish returns, once the peer has
\* acknowledged the stream or stopped it, or the connection is lost; its
\* error is logged and the worker returns.  When that happens is the peer's
\* to decide.
TcpToQuic_finish(s) ==
    /\ t2q[s].pc = "finishing"
    /\ TcpToQuicReturn(s, t2q[s].why, "none")
    /\ UNCHANGED << aux, tree, script, tcp_dest_addr, sess, q2t, tcp, remote_addr >>

\* ------------------------------------------------------- QuicToTcp::handle
\* The worker returns, after the call it made on its way out (shutdown of
\* the TCP write half, or stop(0) on the recv half): the task ends, its clone
\* of shutdown_complete_tx is dropped with it, and so is tcp_write, whose
\* drop shuts the write direction down; the socket is closed if tcp_read is
\* dropped already.  A shutdown that does not fail sends the FIN; a write
\* that failed has taken the socket's error.
QuicToTcpReturn(s, why, call) ==
    /\ q2t' = [q2t EXCEPT ![s].pc = "done", ![s].buf = << >>, ![s].why = why]
    /\ scope' = [scope EXCEPT ![s].tx = @ \ { "q2t" }]
    /\ quic' = [quic EXCEPT ![Peer(s)].stopped = @ \/ call = "stop"]
    /\ tcp' = [tcp EXCEPT ![s].shut = @ \/ ~TcpWriteFails(s),
                          ![s].err = @ /\ why # "tcp_write_error"]
    /\ \E d \in DropWriteHalf(call = "shutdown") :
         ops' = [ops EXCEPT
                   ![s].shutdownWr = @ + (IF call = "shutdown" THEN 1 ELSE 0),
                   ![s].stop = @ + (IF call = "stop" THEN 1 ELSE 0),
                   ![s].dropWr = @ + d,
                   ![s].close = @ + (IF t2q[s].pc = "done" THEN 1 ELSE 0)]

\* QuicToTcp_read that stops the stream on a read error.
Mutant_QuicToTcp_read(s) ==
    /\ q2t[s].pc = "select"
    /\ \E o \in QuicReadOutcomes(Peer(s), QUIC_BUF_SIZE, FALSE) :
         IF o > 0
         THEN /\ q2t' = [q2t EXCEPT ![s].pc = "write", ![s].buf = QuicChunk(Peer(s), o)]
              /\ quic' = [quic EXCEPT ![Peer(s)].nread = @ + o]
              /\ UNCHANGED << aux, tree, script, tcp_dest_addr, sess, t2q, scope, tcp, ops, remote_addr >>
         ELSE /\ QuicToTcpReturn(s, IF o = 0 THEN "finished" ELSE "quic_read_error",
                                 IF o = 0 THEN "shutdown" ELSE "stop")
              /\ UNCHANGED << aux, tree, script, tcp_dest_addr, sess, t2q, remote_addr >>

\* Lines 276-313: the read branch of the select.  Err and None: shutdown of
\* the TCP write half and return; Some(n): the n bytes are in quic_buf and
\* write_all is awaited.
QuicToTcp_read(s) ==
    /\ q2t[s].pc = "select"
    /\ \E o \in QuicReadOutcomes(Peer(s), QUIC_BUF_SIZE, FALSE) :
         IF o > 0
         THEN /\ q2t' = [q2t EXCEPT ![s].pc = "write", ![s].buf = QuicChunk(Peer(s), o)]
              /\ quic' = [quic EXCEPT ![Peer(s)].nread = @ + o]
              /\ UNCHANGED << aux, tree, script, tcp_dest_addr, sess, t2q, scope, tcp, ops, remote_addr >>
         ELSE /\ QuicToTcpReturn(s, IF o = 0 THEN "finished" ELSE "quic_read_error",
                                 "shutdown")
              /\ UNCHANGED << aux, tree, script, tcp_dest_addr, sess, t2q, remote_addr >>

\* Lines 289-302: write_all of the chunk completes; on error stop(0) on the
\* recv half and return.
QuicToTcp_write(s) ==
    /\ q2t[s].pc = "write"
    /\ IF TcpWriteFails(s)
       THEN /\ QuicToTcpReturn(s, "tcp_write_error", "stop")
            /\ UNCHANGED << aux, tree, script, tcp_dest_addr, sess, t2q, remote_addr >>
       ELSE /\ q2t' = [q2t EXCEPT ![s].pc = "select", ![s].buf = << >>]
            /\ tcp' = [tcp EXCEPT ![s].tx = @ \o q2t[s].buf]
            /\ UNCHANGED << aux, tree, script, tcp_dest_addr, sess, t2q, scope, quic, ops, remote_addr >>

\* QuicToTcp_shutdown that also interrupts a write_all in progress.
Mutant_QuicToTcp_shutdown(s) ==
    /\ q2t[s].pc \in { "select", "write" }
    /\ scope[s].notifyClosed
    /\ QuicToTcpReturn(s, "shutdown", "stop")
    /\ UNCHANGED << aux, tree, script, tcp_dest_addr, sess, t2q, remote_addr >>

\* Lines 317-324: the shutdown branch of the select: stop(0) and return.
QuicToTcp_shutdown(s) ==
    /\ q2t[s].pc = "select"
    /\ scope[s].notifyClosed
    /\ QuicToTcpReturn(s, "shutdown", "stop")
    /\ UNCHANGED << aux, tree, script, tcp_dest_addr, sess, t2q, remote_addr >>

\* -------------------------------------------------------------- environment
\* Side s still reads its TCP socket, still writes it, reads or writes it.
TcpReader(s) == t2q[s].pc \in { "select", "write" }
TcpWriter(s) == q2t[s].pc \in { "select", "write" }
InHandshake(s) ==
    sess[s].pc \in { "connect", "end", "reply", "read", "dial", "write_ok", "write_error" }

\* The TCP peer of side s (the local client of the ingress, the destination
\* of the egress), for as long as what it does can reach the session.
TcpPeerWrite(s) ==
    /\ InHandshake(s) \/ TcpReader(s)
    /\ tcp[s].peer = "open"
    /\ tcp[s].sent < Len(Payload(s))
    /\ tcp' = [tcp EXCEPT ![s].rx = Append(@, Payload(s)[tcp[s].sent + 1]),
                          ![s].sent = @ + 1]
    /\ UNCHANGED << aux, tree, script, tcp_dest_addr, sess, t2q, q2t, scope, quic, ops, remote_addr >>

TcpPeerFin(s) ==
    /\ InHandshake(s) \/ TcpReader(s)
    /\ tcp[s].peer = "open"
    /\ tcp' = [tcp EXCEPT ![s].peer = "fin", ![s].eof = TRUE]
    /\ UNCHANGED << aux, tree, script, tcp_dest_addr, sess, t2q, q2t, scope, quic, ops, remote_addr >>

\* The reset leaves the bytes that arrived before it to be read and an error
\* in the socket for the next call to report.
TcpPeerRst(s) ==
    /\ InHandshake(s) \/ TcpReader(s) \/ TcpWriter(s)
    /\ tcp[s].peer \in { "open", "fin" }
    /\ tcp' = [tcp EXCEPT ![s].peer = "rst", ![s].err = TRUE]
    /\ UNCHANGED << aux, tree, script, tcp_dest_addr, sess, t2q, q2t, scope, quic, ops, remote_addr >>

\* The owner of the scope above the session drops its broadcaster.
ParentShutdown(s) ==
    /\ sess[s].pc \notin { "peer", "done" }
    /\ ~scope[s].parentClosed
    /\ scope' = [scope EXCEPT ![s].parentClosed = TRUE]
    /\ UNCHANGED << aux, tree, script, tcp_dest_addr, sess, t2q, q2t, quic, tcp, ops, remote_addr >>

\* A remote QUIC peer in the place of side p, which no session of this
\* repository runs: it writes the next message of its script, finishes or
\* resets its send half, stops the stream it receives.
QuicReader(s) == InHandshake(s) \/ q2t[s].pc \in { "select", "write" }
QuicWriter(s) == InHandshake(s) \/ t2q[s].pc \in { "select", "write", "finishing" }

QuicPeerWrite(p) ==
    /\ sess[p].pc = "peer"
    /\ QuicReader(Peer(p))
    /\ quic[p].end = "open"
    /\ script # << >>
    /\ quic' = [quic EXCEPT ![p].written = @ \o Head(script)]
    /\ script' = Tail(script)
    /\ UNCHANGED << aux, tree, tcp_dest_addr, sess, t2q, q2t, scope, tcp, ops, remote_addr >>

QuicPeerFinish(p) ==
    /\ sess[p].pc = "peer"
    /\ QuicReader(Peer(p))
    /\ quic[p].end = "open"
    /\ quic' = [quic EXCEPT ![p].end = "fin"]
    /\ UNCHANGED << aux, tree, script, tcp_dest_addr, sess, t2q, q2t, scope, tcp, ops, remote_addr >>

QuicPeerReset(p) ==
    /\ sess[p].pc = "peer"
    /\ QuicReader(Peer(p))
    /\ quic[p].end = "open"
    /\ quic' = [quic EXCEPT ![p].end = "rst"]
    /\ UNCHANGED << aux, tree, script, tcp_dest_addr, sess, t2q, q2t, scope, tcp, ops, remote_addr >>

QuicPeerStop(p) ==
    /\ sess[p].pc = "peer"
    /\ QuicWriter(Peer(p))
    /\ ~quic[Peer(p)].stopped
    /\ quic' = [quic EXCEPT ![Peer(p)].stopped = TRUE]
    /\ UNCHANGED << aux, tree, script, tcp_dest_addr, sess, t2q, q2t, scope, tcp, ops, remote_addr >>

\* What a remote QUIC peer may write, message by message.  To the
\* concentrator: a TCP_CONNECT, the first four bytes of a TCP_CONNECT and no
\* more, or an ERROR TLV in the place of TCP_CONNECT; to the client:
\* TCP_CONNECT_OK or the ERROR TLV this repository's concentrator writes.
\* Then MaxQuicPayload payload bytes, one write each.  (What this
\* repository's client writes to the concentrator is in TunnelSpec.)
QuicPayload == [i \in 1..MaxQuicPayload |-> << 50 + i >>]

PeerScripts(p) ==
    IF p = "I"
    THEN { << new_tcp_connect(Zeros(20), V4(10, 0, 0, 1, 8080)).buf >> \o QuicPayload,
           << SubSeq(new_tcp_connect(Zeros(20), V4(10, 0, 0, 1, 8080)).buf, 1, 4) >>,
           << SubSeq(new_error_tlv(Zeros(20)).buf, 1, 4) >> }
    ELSE { << SubSeq(new_tcp_connect_ok(Zeros(20)).buf, 1, 2) >> \o QuicPayload,
           << SubSeq(new_error_tlv(Zeros(20)).buf, 1, 4) >> }

\* ------------------------------------------------------------ specification
\* The steps a task takes as soon as the executor polls it, because what it
\* waits for is there: bytes that have arrived, the end or the reset of a
\* stream, a closed broadcaster, a rendezvous whose senders are all dropped.
Tasks ==
    \/ run_client_conn_reply
    \/ run_concentrator_conn_read
    \/ \E s \in Sides :
         \/ session_shutdown(s)
         \/ session_complete(s)
         \/ TcpToQuic_read(s)
         \/ TcpToQuic_shutdown(s)
         \/ QuicToTcp_read(s)
         \/ QuicToTcp_shutdown(s)

\* The returns of the calls that wait for the other end: a write on the QUIC
\* stream waits for flow-control credit (connection.rs 55, 65, 168, 174, 236),
\* write_all on the TCP socket for the peer to read (289), connect for the
\* destination (159), finish for the acknowledgement (229, 257).  The task
\* polls nothing else meanwhile, its shutdown signal included.
Awaited ==
    \/ run_client_conn_connect
    \/ run_client_conn_end
    \/ run_concentrator_conn_dial
    \/ run_concentrator_conn_write
    \/ \E s \in Sides :
         \/ TcpToQuic_write(s)
         \/ QuicToTcp_write(s)
         \/ TcpToQuic_finish(s)

Program == Tasks \/ Awaited

\* The faults the environment has injected: scopes above a session shut
\* down, TCP connections reset.
Faults ==
    Cardinality({ s \in Sides : scope[s].parentClosed })
       + Cardinality({ s \in Sides : tcp[s].peer = "rst" })

\* The faults of a remote QUIC peer: its send half reset, the stream it
\* receives stopped.
PeerFaults ==
    Cardinality({ p \in Sides : sess[p].pc = "peer" /\ quic[p].end = "rst" })
       + Cardinality({ p \in Sides : sess[p].pc = "peer" /\ quic[Peer(p)].stopped })

\* The TCP peer of the session and the scope above it; at most max resets,
\* stops and shutdowns in one behaviour.
EnvironmentWith(max) ==
    \E s \in Sides :
       \/ TcpPeerWrite(s)
       \/ TcpPeerFin(s)
       \/ Faults + PeerFaults < max /\ TcpPeerRst(s)
       \/ Faults + PeerFaults < max /\ ParentShutdown(s)

QuicPeerWith(max) ==
    \E p \in Sides :
       \/ QuicPeerWrite(p)
       \/ QuicPeerFinish(p)
       \/ Faults + PeerFaults < max /\ QuicPeerReset(p)
       \/ Faults + PeerFaults < max /\ QuicPeerStop(p)

Environment == EnvironmentWith(MaxFaults)

QuicPeer == QuicPeerWith(MaxFaults)

\* One session of this repository against a remote QUIC peer; the
\* concentrator is configured with no destination.
SessionInit ==
    \E s \in Sides :
       /\ InitStateFor({ s }, IF s = "I" THEN Destinations ELSE { NoAddr })
       /\ script \in PeerScripts(Peer(s))
       /\ TreeInit({ IF s = "I" THEN "client" ELSE "concentrator" })
       /\ AuxInit

SessionNext == Program \/ Environment \/ QuicPeer

SessionSpec == SessionInit /\ [][SessionNext]_vars

\* The executor runs every task whose wait is over.  Nothing is assumed of
\* the other end: a write, a connect or a finish may stay pending for ever.
\* At most MaxFairFaults resets, stops and shutdowns in one behaviour.
FairSessionNext ==
    Program \/ EnvironmentWith(MaxFairFaults) \/ QuicPeerWith(MaxFairFaults)

FairSessionSpec == SessionInit /\ [][FairSessionNext]_vars /\ WF_vars(Tasks)

\* The client's session and the concentrator's session of one connection.
TunnelInit ==
    /\ InitState(Sides)
    /\ script = << >>
    /\ TreeInit({ "client" })
    /\ AuxInit

\* The TCP peers of both sides, and the shutdown of the scope above the
\* session in the client process and in the concentrator process; at most
\* MaxTunnelFaults resets and shutdowns and at most MaxTunnelPayload payload
\* bytes, of the local client or of the destination, in one behaviour.
TunnelEnvironment ==
    \E s \in Sides :
       \/ tcp["I"].sent + tcp["E"].sent < MaxTunnelPayload /\ TcpPeerWrite(s)
       \/ TcpPeerFin(s)
       \/ Faults < MaxTunnelFaults /\ TcpPeerRst(s)
       \/ Faults < MaxTunnelFaults /\ ParentShutdown(s)

TunnelNext == Program \/ TunnelEnvironment

TunnelSpec == TunnelInit /\ [][TunnelNext]_vars

\* ------------------------------------------------ the process: bin/*.rs main
\* ProcessSpec keeps the tasks and the shutdown scopes of one process and
\* leaves the bytes out: what a task reads or writes decides only which way it
\* goes on, and that choice is the environment's.

\* The lowest connection, or stream, not spawned yet.
FreeConns == { h \in Conns : handler[h].pc = "none" /\ \A g \in 1..(h - 1) : handler[g].pc # "none" }
FreeStreams == { i \in Streams : stream[i].pc = "none" /\ \A j \in 1..(i - 1) : stream[j].pc # "none" }

\* bin/client.rs 116-137, bin/concentrator.rs 99-120: ctrl_c wins the select;
\* the future of server.run() is dropped with its locals (the backoff of an
\* accept in progress, a connection whose handshake is pending), then
\* notify_shutdown is dropped.
main_select_ctrl_c ==
    /\ main = "select"
    /\ main' = "drop_tx"
    /\ listener' = "dropped"
    /\ acceptor' = [acceptor EXCEPT !.backoff = 0]
    /\ root' = [root EXCEPT !.closed = TRUE]
    /\ UNCHANGED << codec, bridge, role, handler, conn_scope, stream, stream_scope, worker >>

\* The same lines: server.run() returned an error; it is logged and
\* notify_shutdown is dropped.
main_select_run ==
    /\ main = "select"
    /\ listener = "returned"
    /\ main' = "drop_tx"
    /\ root' = [root EXCEPT !.closed = TRUE]
    /\ UNCHANGED << aux, bridge, role, listener, handler, conn_scope, stream, stream_scope, worker >>

\* bin/client.rs 139, bin/concentrator.rs 123: drop(shutdown_complete_tx).
main_drop_tx ==
    /\ main = "drop_tx"
    /\ main' = "recv"
    /\ root' = [root EXCEPT !.owner = FALSE]
    /\ UNCHANGED << aux, bridge, role, listener, handler, conn_scope, stream, stream_scope, worker >>

\* main_recv that returns once main's own sender is dropped.
Mutant_main_recv ==
    /\ main = "recv"
    /\ ~root.owner
    /\ main' = "exit"
    /\ UNCHANGED << aux, bridge, role, listener, root, handler, conn_scope, stream, stream_scope, worker >>

\* bin/client.rs 140-142, bin/concentrator.rs 124-126: the final receive
\* returns None and main returns Ok(()).
main_recv ==
    /\ main = "recv"
    /\ RendezvousDone(root)
    /\ main' = "exit"
    /\ UNCHANGED << aux, bridge, role, listener, root, handler, conn_scope, stream, stream_scope, worker >>

\* ------------------------------------------------- client.rs: Listener::run
\* A session task is spawned on stream i under the scope of parent p (0: the
\* process scope, h: the scope of connection h) with a subscription to that
\* scope's broadcaster and a clone of its shutdown_complete_tx.
SpawnStream(i, p) ==
    /\ stream' = [stream EXCEPT ![i].pc = IF p = 0 THEN "connect" ELSE "read",
                                ![i].parent = p]
    /\ IF p = 0
       THEN /\ root' = [root EXCEPT !.tasks = @ \cup { i }]
            /\ UNCHANGED conn_scope
       ELSE /\ conn_scope' = [conn_scope EXCEPT ![p].tasks = @ \cup { i }]
            /\ UNCHANGED root

\* client.rs 65-66 and 32-39: listener.accept() returns a socket; accept
\* returns it, its backoff is gone, and run goes on to await open_bi.
client_Listener_accept_ok ==
    /\ role = "client" /\ main = "select" /\ listener = "accept"
    /\ FreeStreams # {}
    /\ listener' = "open_bi"
    /\ acceptor' = [acceptor EXCEPT !.backoff = 0]
    /\ UNCHANGED << codec, bridge, role, main, root, handler, conn_scope, stream, stream_scope, worker >>

\* client.rs 65-77 and 32: listener.accept() fails; once backoff > 64 accept
\* returns the error and run returns it; otherwise delay_for(backoff) is
\* awaited.
client_Listener_accept_err ==
    /\ role = "client" /\ main = "select" /\ listener = "accept"
    /\ listener' = IF acceptor.backoff > 64 THEN "returned" ELSE "sleep"
    /\ acceptor' = [acceptor EXCEPT !.backoff = IF @ > 64 THEN 0 ELSE @]
    /\ UNCHANGED << codec, bridge, role, main, root, handler, conn_scope, stream, stream_scope, worker >>

\* client.rs 77-78 and 65: the delay elapses, backoff *= 2, and
\* listener.accept() is awaited again.
client_Listener_accept_sleep ==
    /\ role = "client" /\ main = "select" /\ listener = "sleep"
    /\ listener' = "accept"
    /\ acceptor' = [acceptor EXCEPT !.backoff = @ * 2]
    /\ UNCHANGED << codec, bridge, role, main, root, handler, conn_scope, stream, stream_scope, worker >>

\* client.rs 39-55, 32 and 61-65: open_bi() fails and run returns the error,
\* or the session task is spawned and the loop calls accept again, which
\* starts with backoff = 1.
client_Listener_open_bi ==
    /\ role = "client" /\ main = "select" /\ listener = "open_bi"
    /\ \E ok \in BOOLEAN :
         IF ok
         THEN /\ \E i \in FreeStreams : SpawnStream(i, 0)
              /\ listener' = "accept"
              /\ acceptor' = [acceptor EXCEPT !.backoff = 1]
         ELSE /\ listener' = "returned"
              /\ UNCHANGED << acceptor, root, stream, conn_scope >>
    /\ UNCHANGED << codec, bridge, role, main, handler, stream_scope, worker >>

\* ------------------------------------------- concentrator.rs: Listener::run
\* concentrator.rs 35-46: incoming.next() returns.  None: log and continue;
\* a connection: its handshake is awaited.
concentrator_Listener_incoming ==
    /\ role = "concentrator" /\ main = "select" /\ listener = "accept"
    /\ \E o \in { "none", "conn" } :
         listener' = IF o = "conn" THEN "connecting" ELSE listener
    /\ UNCHANGED << aux, bridge, role, main, root, handler, conn_scope, stream, stream_scope, worker >>

\* concentrator.rs 42-63: the awaited handshake of the connection returns.
\* An error: run returns it; otherwise a ConnectionHandler task is spawned and
\* the loop awaits incoming.next() again.
concentrator_Listener_connecting ==
    /\ role = "concentrator" /\ main = "select" /\ listener = "connecting"
    /\ \E o \in { "error" } \cup (IF FreeConns # {} THEN { "ok" } ELSE {}) :
         IF o = "ok"
         THEN /\ \E h \in FreeConns :
                   /\ handler' = [handler EXCEPT ![h].pc = "select"]
                   /\ root' = [root EXCEPT !.tasks = @ \cup { h }]
              /\ listener' = "accept"
         ELSE /\ listener' = "returned"
              /\ UNCHANGED << root, handler >>
    /\ UNCHANGED << aux, bridge, role, main, conn_scope, stream, stream_scope, worker >>

\* ----------------------------------- concentrator.rs: ConnectionHandler::run
\* What bi_streams.next() may return: a stream, an error of the connection,
\* or None; once it returned None (the stream of streams has ended) it
\* returns None again.
BiStreamsNext(h) ==
    IF handler[h].exhausted THEN { "none" }
    ELSE { "none", "closed", "error" } \cup (IF FreeStreams # {} THEN { "ok" } ELSE {})

\* concentrator.rs 76-114: the stream branch of the select.  None: continue;
\* ApplicationClosed or another error: drop(notify_shutdown) and go on to the
\* rendezvous; a stream: spawn its session task.
ConnectionHandler_stream(h) ==
    /\ handler[h].pc = "select"
    /\ \E o \in BiStreamsNext(h) :
         IF o = "ok"
         THEN /\ \E i \in FreeStreams : SpawnStream(i, h)
              /\ UNCHANGED handler
         ELSE IF o = "none"
         THEN /\ handler' = [handler EXCEPT ![h].exhausted = TRUE]
              /\ UNCHANGED << conn_scope, stream, root >>
         ELSE /\ handler' = [handler EXCEPT ![h].pc = "drop_tx", ![h].why = o,
                                ![h].result = IF o = "closed" THEN "ok" ELSE "err"]
              /\ conn_scope' = [conn_scope EXCEPT ![h].closed = TRUE]
              /\ UNCHANGED << stream, root >>
    /\ UNCHANGED << aux, bridge, role, main, listener, stream_scope, worker >>

\* concentrator.rs 117-119: the shutdown branch of the select.
ConnectionHandler_shutdown(h) ==
    /\ handler[h].pc = "select"
    /\ root.closed
    /\ handler' = [handler EXCEPT ![h].pc = "drop_tx", ![h].why = "shutdown",
                      ![h].result = "ok"]
    /\ conn_scope' = [conn_scope EXCEPT ![h].closed = TRUE]
    /\ UNCHANGED << aux, bridge, role, main, listener, root, stream, stream_scope, worker >>

\* ConnectionHandler_drop_tx that keeps the handler's own sender.
Mutant_ConnectionHandler_drop_tx(h) ==
    /\ handler[h].pc = "drop_tx"
    /\ handler' = [handler EXCEPT ![h].pc = "recv"]
    /\ UNCHANGED << aux, bridge, role, main, listener, root, conn_scope, stream, stream_scope, worker >>

\* concentrator.rs 89, 96, 120: drop(shutdown_complete_tx).
ConnectionHandler_drop_tx(h) ==
    /\ handler[h].pc = "drop_tx"
    /\ handler' = [handler EXCEPT ![h].pc = "recv"]
    /\ conn_scope' = [conn_scope EXCEPT ![h].owner = FALSE]
    /\ UNCHANGED << aux, bridge, role, main, listener, root, stream, stream_scope, worker >>

\* ConnectionHandler_recv that returns once the handler's sender is dropped.
Mutant_ConnectionHandler_recv(h) ==
    /\ handler[h].pc = "recv"
    /\ ~conn_scope[h].owner
    /\ handler' = [handler EXCEPT ![h].pc = "done"]
    /\ root' = [root EXCEPT !.tasks = @ \ { h }]
    /\ UNCHANGED << aux, bridge, role, main, listener, conn_scope, stream, stream_scope, worker >>

\* concentrator.rs 90-91, 97-98, 121-122 and 58-62: the receive returns None,
\* run returns and the task drops the handler with its clone of the process
\* scope's sender.
ConnectionHandler_recv(h) ==
    /\ handler[h].pc = "recv"
    /\ RendezvousDone(conn_scope[h])
    /\ handler' = [handler EXCEPT ![h].pc = "done"]
    /\ root' = [root EXCEPT !.tasks = @ \ { h }]
    /\ UNCHANGED << aux, bridge, role, main, listener, conn_scope, stream, stream_scope, worker >>

\* ------------------------------------ connection.rs: the session as a task
\* The broadcaster the session of stream i subscribed to.
ParentClosed(i) ==
    IF stream[i].parent = 0 THEN root.closed ELSE conn_scope[stream[i].parent].closed

\* StreamReturn that closes the parent's scope when the session failed.
Mutant_StreamReturn(i, res) ==
    /\ stream' = [stream EXCEPT ![i].pc = "done", ![i].result = res]
    /\ stream_scope' = [stream_scope EXCEPT ![i].closed = TRUE, ![i].owner = FALSE]
    /\ IF stream[i].parent = 0
       THEN /\ root' = [root EXCEPT !.tasks = @ \ { i }, !.closed = @ \/ res = "err"]
            /\ UNCHANGED conn_scope
       ELSE /\ conn_scope' = [conn_scope EXCEPT ![stream[i].parent].tasks = @ \ { i },
                                  ![stream[i].parent].closed = @ \/ res = "err"]
            /\ UNCHANGED root

\* The session task of stream i returns: its own notify_shutdown goes out of
\* scope and the task drops the Connection with its clone of the parent's
\* shutdown_complete_tx.  An error it returns is logged by the task.
StreamReturn(i, res) ==
    /\ stream' = [stream EXCEPT ![i].pc = "done", ![i].result = res]
    /\ stream_scope' = [stream_scope EXCEPT ![i].closed = TRUE, ![i].owner = FALSE]
    /\ IF stream[i].parent = 0
       THEN /\ root' = [root EXCEPT !.tasks = @ \ { i }]
            /\ UNCHANGED conn_scope
       ELSE /\ conn_scope' = [conn_scope EXCEPT ![stream[i].parent].tasks = @ \ { i }]
            /\ UNCHANGED root

\* connection.rs 90-118 and 176-204: both workers are spawned, each with a
\* subscription to the session's broadcaster and a clone of its sender, and
\* the session drops its own sender.
Bridge(i) ==
    /\ stream' = [stream EXCEPT ![i].pc = "select", ![i].bridged = TRUE]
    /\ stream_scope' = [stream_scope EXCEPT ![i].owner = FALSE, ![i].tasks = Workers]
    /\ worker' = [worker EXCEPT ![i] = [w \in Workers |->
                                          [pc |-> "select", why |-> "", result |-> ""]]]

\* connection.rs 48-57: TCP_CONNECT is encoded, an encoder error ending the
\* session with Ok; the awaited write_all of it returns, an error of the
\* write logged and ignored.
task_run_client_conn_connect(i) ==
    /\ stream[i].pc = "connect"
    /\ IF ~ClientBufConnect.ok
       THEN StreamReturn(i, "ok")
       ELSE /\ stream' = [stream EXCEPT ![i].pc = "end"]
            /\ UNCHANGED << root, conn_scope, stream_scope >>
    /\ UNCHANGED << aux, bridge, role, main, listener, handler, worker >>

\* connection.rs 59-67: the awaited write_all of the second TLV returns, its
\* error logged and ignored; the reply is awaited.
task_run_client_conn_end(i) ==
    /\ stream[i].pc = "end"
    /\ stream' = [stream EXCEPT ![i].pc = "reply"]
    /\ UNCHANGED << aux, bridge, role, main, listener, root, handler, conn_scope, stream_scope, worker >>

\* connection.rs 69-118: the awaited quic_recv.read returns when the peer's
\* reply, the end of the stream or an error arrives; the session then
\* bridges, or shuts the TCP socket down and returns (the error of the
\* shutdown, if it fails).
task_run_client_conn_reply(i) ==
    /\ stream[i].pc = "reply"
    /\ \E o \in { "bridge", "ok", "err" } :
         IF o = "bridge"
         THEN /\ Bridge(i)
              /\ UNCHANGED << root, conn_scope >>
         ELSE /\ StreamReturn(i, o)
              /\ UNCHANGED worker
    /\ UNCHANGED << aux, bridge, role, main, listener, handler >>

\* connection.rs 137-158: the concentrator's session up to its dial.  The
\* awaited quic_recv.read returns; the session returns on an error, the end
\* of the stream or a message that does not parse, and goes on to dial
\* otherwise.
task_run_concentrator_conn_read(i) ==
    /\ stream[i].pc = "read"
    /\ \E ok \in BOOLEAN :
         IF ok
         THEN /\ stream' = [stream EXCEPT ![i].pc = "dial"]
              /\ UNCHANGED << root, conn_scope, stream_scope >>
         ELSE StreamReturn(i, "ok")
    /\ UNCHANGED << aux, bridge, role, main, listener, handler, worker >>

\* connection.rs 159-174: the awaited TcpStream::connect returns, with the
\* socket or with an error; the write of the reply is awaited.
task_run_concentrator_conn_dial(i) ==
    /\ stream[i].pc = "dial"
    /\ \E connected \in BOOLEAN :
         stream' = [stream EXCEPT ![i].pc = IF connected THEN "write_ok" ELSE "write_error"]
    /\ UNCHANGED << aux, bridge, role, main, listener, root, handler, conn_scope, stream_scope, worker >>

\* connection.rs 167-169 and 173-204: the awaited write of the reply returns.
\* Its error is returned with `?`; after the ERROR TLV the session returns Ok,
\* after TCP_CONNECT_OK it bridges.
task_run_concentrator_conn_write(i) ==
    /\ stream[i].pc \in { "write_ok", "write_error" }
    /\ \E written \in BOOLEAN :
         IF written /\ stream[i].pc = "write_ok"
         THEN /\ Bridge(i)
              /\ UNCHANGED << root, conn_scope >>
         ELSE /\ StreamReturn(i, IF written THEN "ok" ELSE "err")
              /\ UNCHANGED worker
    /\ UNCHANGED << aux, bridge, role, main, listener, handler >>

\* connection.rs 120-121 and 206-207: the shutdown branch of the session's
\* select: drop(notify_shutdown).
task_session_shutdown(i) ==
    /\ stream[i].pc = "select"
    /\ ParentClosed(i)
    /\ stream' = [stream EXCEPT ![i].pc = "wait", ![i].observed = TRUE]
    /\ stream_scope' = [stream_scope EXCEPT ![i].closed = TRUE]
    /\ UNCHANGED << aux, bridge, role, main, listener, root, handler, conn_scope, worker >>

\* connection.rs 122-126 and 208-212: the receive returns None and the
\* session returns Ok(()).
task_session_complete(i) ==
    /\ stream[i].pc \in { "select", "wait" }
    /\ RendezvousDone(stream_scope[i])
    /\ StreamReturn(i, "ok")
    /\ UNCHANGED << aux, bridge, role, main, listener, handler, worker >>

\* ------------------------------------ connection.rs: the workers as tasks
\* Worker w of stream i returns and its task drops it, with its clone of the
\* session's sender.  Every return of handle is Ok(()) (connection.rs 232,
\* 240, 249, 260, 264, 284, 301, 310, 323, 327).
WorkerReturn(i, w, why) ==
    /\ worker' = [worker EXCEPT ![i][w] = [pc |-> "done", why |-> why, result |-> "ok"]]
    /\ stream_scope' = [stream_scope EXCEPT ![i].tasks = @ \ { w }]

\* connection.rs 224-251 and 277-313: the read branch of the worker's select.
\* A chunk: go on to write it; the end of the input or a read error: close
\* the output and return, TcpToQuic at the end of its input once the finish
\* it awaits has returned.
task_worker_read(i, w) ==
    /\ worker[i][w].pc = "select"
    /\ \E o \in { "chunk", "end", "error" } :
         IF o = "chunk"
         THEN /\ worker' = [worker EXCEPT ![i][w].pc = "write"]
              /\ UNCHANGED stream_scope
         ELSE IF o = "end" /\ w = "t2q"
         THEN /\ worker' = [worker EXCEPT ![i][w].pc = "finishing", ![i][w].why = "read"]
              /\ UNCHANGED stream_scope
         ELSE WorkerReturn(i, w, "read")
    /\ UNCHANGED << aux, bridge, role, main, listener, root, handler, conn_scope, stream >>

\* connection.rs 234-241 and 288-298: the awaited write_all returns; on an
\* error the worker returns, otherwise the loop goes on.
task_worker_write(i, w) ==
    /\ worker[i][w].pc = "write"
    /\ \E ok \in BOOLEAN :
         IF ok
         THEN /\ worker' = [worker EXCEPT ![i][w].pc = "select"]
              /\ UNCHANGED stream_scope
         ELSE WorkerReturn(i, w, "write")
    /\ UNCHANGED << aux, bridge, role, main, listener, root, handler, conn_scope, stream >>

\* connection.rs 253-262 and 315-324: the shutdown branch of the worker's
\* select.  QuicToTcp stops its stream and returns; TcpToQuic calls finish
\* and awaits it.
task_worker_shutdown(i, w) ==
    /\ worker[i][w].pc = "select"
    /\ stream_scope[i].closed
    /\ IF w = "t2q"
       THEN /\ worker' = [worker EXCEPT ![i][w].pc = "finishing", ![i][w].why = "shutdown"]
            /\ UNCHANGED stream_scope
       ELSE WorkerReturn(i, w, "shutdown")
    /\ UNCHANGED << aux, bridge, role, main, listener, root, handler, conn_scope, stream >>

\* connection.rs 229-232 and 257-260: the finish TcpToQuic awaits returns,
\* when the peer has acknowledged the stream or stopped it or the connection
\* is lost, and the worker returns.
task_worker_finish(i) ==
    /\ worker[i]["t2q"].pc = "finishing"
    /\ WorkerReturn(i, "t2q", worker[i]["t2q"].why)
    /\ UNCHANGED << aux, bridge, role, main, listener, root, handler, conn_scope, stream >>

\* ------------------------------------------------------ ProcessSpec
MainTask == main_select_run \/ main_drop_tx \/ main_recv

HandlerTask(h) ==
    ConnectionHandler_shutdown(h) \/ ConnectionHandler_drop_tx(h) \/ ConnectionHandler_recv(h)

SessionTask(i) == task_session_shutdown(i) \/ task_session_complete(i)

\* What the process waits for from outside: the interrupt, TCP and QUIC
\* connections and streams, the clock, the bytes and the ends of streams,
\* and the returns of the calls that wait for the other end (a write for
\* flow-control credit or for the TCP peer to read, connect for the
\* destination, finish for the acknowledgement).
Outside ==
    \/ main_select_ctrl_c
    \/ client_Listener_accept_ok
    \/ client_Listener_accept_err
    \/ client_Listener_accept_sleep
    \/ client_Listener_open_bi
    \/ concentrator_Listener_incoming
    \/ concentrator_Listener_connecting
    \/ \E h \in Conns : ConnectionHandler_stream(h)
    \/ \E i \in Streams : task_run_client_conn_connect(i)
    \/ \E i \in Streams : task_run_client_conn_end(i)
    \/ \E i \in Streams : task_run_client_conn_reply(i)
    \/ \E i \in Streams : task_run_concentrator_conn_read(i)
    \/ \E i \in Streams : task_run_concentrator_conn_dial(i)
    \/ \E i \in Streams : task_run_concentrator_conn_write(i)
    \/ \E i \in Streams, w \in Workers : task_worker_read(i, w)
    \/ \E i \in Streams, w \in Workers : task_worker_write(i, w)
    \/ \E i \in Streams : task_worker_finish(i)

\* main has built its Listener and polls run, which awaits its first accept
\* (the client's with backoff = 1).  Only the client is configured with a
\* destination.
ProcessInit ==
    /\ TreeInit({ "client", "concentrator" })
    /\ acceptor = [AcceptorStart EXCEPT !.backoff = IF role = "client" THEN 1 ELSE 0]
    /\ CodecInit({ V4(10, 0, 0, 1, 8080) }, { CLIENT_BUF_SIZE }, { 0 })
    /\ InitStateFor({}, IF role = "client" THEN Destinations ELSE { NoAddr })
    /\ script = << >>

ProcessNext ==
    \/ Outside
    \/ MainTask
    \/ \E h \in Conns : HandlerTask(h)
    \/ \E i \in Streams : SessionTask(i)
    \/ \E i \in Streams, w \in Workers : task_worker_shutdown(i, w)

ProcessSpec == ProcessInit /\ [][ProcessNext]_vars

\* The executor runs every task whose wait is over; tokio::select! picks
\* among its ready branches at random, so a branch that is ready again and
\* again is taken.  Nothing is assumed of what arrives from outside: a write,
\* a connect or a finish may stay pending for ever.
FairProcessSpec ==
    /\ ProcessSpec
    /\ WF_vars(MainTask)
    /\ \A h \in Conns : WF_vars(HandlerTask(h))
    /\ \A i \in Streams : WF_vars(SessionTask(i))
    /\ \A i \in Streams, w \in Workers : SF_vars(task_worker_shutdown(i, w))

\* ------------------------------------ client.rs: Listener::run and accept
\* AcceptSpec: the acceptor loop of the client with its backoff, against a
\* TCP listener whose accept may fail any number of times.

\* client.rs 32 and 61: run calls self.accept(), which sets backoff = 1.
Listener_run_accept ==
    /\ acceptor.pc = "run"
    /\ acceptor' = [acceptor EXCEPT !.pc = "accept", !.backoff = 1,
                       !.failures = 0, !.attempts = 0]
    /\ UNCHANGED << bridge, tree, codec >>

\* client.rs 65-66 and 32-39: listener.accept() returns a socket, accept
\* returns it and run goes on to await open_bi.
Listener_accept_ok ==
    /\ acceptor.pc = "accept"
    /\ acceptor.accepted < MaxAccepts
    /\ acceptor' = [acceptor EXCEPT !.pc = "open_bi",
                       !.attempts = @ + 1,
                       !.accepted = @ + 1,
                       !.log = Append(@, 0)]
    /\ UNCHANGED << bridge, tree, codec >>

\* client.rs 39-55: the awaited open_bi returns; an error is returned by run,
\* otherwise the session task is spawned and the loop goes on.
Listener_open_bi ==
    /\ acceptor.pc = "open_bi"
    /\ \E opened \in BOOLEAN :
         acceptor' = [acceptor EXCEPT !.pc = IF opened THEN "run" ELSE "returned",
                         !.why = IF opened THEN "" ELSE "open_bi",
                         !.spawned = IF opened THEN @ + 1 ELSE @]
    /\ UNCHANGED << bridge, tree, codec >>

\* Listener_accept_err that gives up as soon as the backoff has reached 64.
Mutant_Listener_accept_err ==
    /\ acceptor.pc = "accept"
    /\ acceptor' = [acceptor EXCEPT !.pc = IF acceptor.backoff >= 64 THEN "returned" ELSE "sleep",
                       !.why = IF acceptor.backoff >= 64 THEN "accept" ELSE "",
                       !.attempts = @ + 1,
                       !.failures = @ + 1]
    /\ UNCHANGED << bridge, tree, codec >>

\* client.rs 67-72 and 32: listener.accept() fails; once backoff > 64 accept
\* returns the error and run returns it; otherwise accept goes on to sleep.
Listener_accept_err ==
    /\ acceptor.pc = "accept"
    /\ acceptor' = [acceptor EXCEPT !.pc = IF acceptor.backoff > 64 THEN "returned" ELSE "sleep",
                       !.why = IF acceptor.backoff > 64 THEN "accept" ELSE "",
                       !.attempts = @ + 1,
                       !.failures = @ + 1]
    /\ UNCHANGED << bridge, tree, codec >>

\* Listener_accept_sleep that adds to the backoff instead of doubling it.
Mutant_Listener_accept_sleep ==
    /\ acceptor.pc = "sleep"
    /\ acceptor' = [acceptor EXCEPT !.pc = "accept",
                       !.backoff = @ + 2,
                       !.log = Append(@, acceptor.backoff)]
    /\ UNCHANGED << bridge, tree, codec >>

\* client.rs 77-78: delay_for(Duration::from_secs(backoff)) elapses, then
\* backoff *= 2 and the loop tries again.
Listener_accept_sleep ==
    /\ acceptor.pc = "sleep"
    /\ acceptor' = [acceptor EXCEPT !.pc = "accept",
                       !.backoff = @ * 2,
                       !.log = Append(@, acceptor.backoff)]
    /\ UNCHANGED << bridge, tree, codec >>

AcceptInit ==
    /\ AcceptorInit
    /\ CodecInit({ V4(10, 0, 0, 1, 8080) }, { CLIENT_BUF_SIZE }, { 0 })
    /\ TreeInit({ "client" })
    /\ InitState({})
    /\ ~is_multicast(tcp_dest_addr)
    /\ script = << >>

AcceptNext ==
    \/ Listener_run_accept
    \/ Listener_accept_ok
    \/ Listener_open_bi
    \/ Listener_accept_err
    \/ Listener_accept_sleep

AcceptSpec == AcceptInit /\ [][AcceptNext]_vars

\* ---------------------------------------------------- tlv.rs on its own
\* TlvSpec: new_tcp_connect on any address and any caller's buffer, then
\* parse_tcp_connect on the bytes it produced; and a client session
\* configured with that address, up to the two writes of its handshake.
CodecPorts == { 0, 80, 8080, 65535 }

CodecAddrs ==
    { V4(q[1], q[2], q[3], q[4], p) :
         q \in { << 0, 0, 0, 0 >>, << 10, 0, 0, 1 >>, << 127, 0, 0, 1 >>,
                 << 192, 168, 1, 255 >>, << 223, 255, 255, 255 >>,
                 << 224, 0, 0, 1 >>, << 239, 255, 255, 255 >>,
                 << 240, 0, 0, 1 >>, << 255, 255, 255, 255 >> },
         p \in CodecPorts }
    \cup
    { V6(o, p) :
         o \in { Zeros(15) \o << 1 >>,
                 << 32, 1, 13, 184 >> \o Zeros(11) \o << 1 >>,
                 << 254, 128 >> \o Zeros(13) \o << 1 >>,
                 << 255, 2 >> \o Zeros(13) \o << 1 >>,
                 Zeros(10) \o << 255, 255, 224, 0, 0, 1 >> },
         p \in CodecPorts }

\* Lengths of the caller's buffer, and the byte it is filled with.
CodecSizes == { 19, CLIENT_BUF_SIZE, CONCENTRATOR_BUF_SIZE }
CodecFills == { 0, 170 }

\* tlv.rs 16-50: new_tcp_connect(&mut buf, &addr).
tlv_new_tcp_connect ==
    /\ codec.pc = "new"
    /\ LET r == new_tcp_connect(codec.buf, codec.addr) IN
       codec' = [codec EXCEPT !.pc = "encoded", !.enc = r, !.buf = r.buf]
    /\ UNCHANGED << bridge, tree, acceptor >>

\* tlv.rs 92-102: parse_tcp_connect(&buf[..n]) on what the encoder wrote.
tlv_parse_tcp_connect ==
    /\ codec.pc = "encoded"
    /\ codec.enc.ok
    /\ codec' = [codec EXCEPT !.pc = "parsed",
                    !.dec = parse_tcp_connect(SubSeq(codec.buf, 1, codec.enc.n))]
    /\ UNCHANGED << bridge, tree, acceptor >>

TlvInit ==
    /\ AcceptorInit
    /\ CodecInit(CodecAddrs, CodecSizes, CodecFills)
    /\ TreeInit({ "client" })
    /\ InitStateFor({ "I" }, { codec.addr })
    /\ script = << >>

TlvNext ==
    \/ tlv_new_tcp_connect
    \/ tlv_parse_tcp_connect
    \/ run_client_conn_connect
    \/ run_client_conn_end

TlvSpec == TlvInit /\ [][TlvNext]_vars

\* ----------------------------------------------- claims on the process tree
AllTasksReturned ==
    /\ \A h \in Conns : handler[h].pc \in { "none", "done" }
    /\ \A i \in Streams :
          /\ stream[i].pc \in { "none", "done" }
          /\ \A w \in Workers : worker[i][w].pc \in { "none", "done" }

\* C3: once the process scope's broadcaster is dropped, every task returns
\* and main passes its final receive, whatever arrives from outside.
ShutdownTerminates == root.closed ~> (main = "exit" /\ AllTasksReturned)

WorkersReturned(i) == \A w \in Workers : worker[i][w].pc \in { "none", "done" }

\* No worker of stream i is in its loop: each has taken the shutdown branch
\* of its select or has left the loop before for a reason of its own.
WorkersSignalled(i) == \A w \in Workers : worker[i][w].pc \notin { "select", "write" }

\* C4: a scope is closed by shutdown only after its parent's, and the closing
\* of the process scope reaches every ConnectionHandler, from a closed
\* connection scope (or process scope) every Bridging session under it, and
\* from a closed session scope both of its workers, which observe it: each
\* takes the shutdown branch of its select, unless it has left its loop before
\* for a reason of its own.  A closed broadcaster stays closed and a Bridging
\* session stays Bridging, so "again and again (P => Q)", for all three at
\* once, says that each P leads to its Q.
ShutdownCascades ==
    /\ [](\A h \in Conns : handler[h].why = "shutdown" => root.closed)
    /\ [](\A i \in Streams : stream[i].observed =>
             ParentClosed(i) /\ stream_scope[i].closed)
    /\ [](\A i \in Streams, w \in Workers :
             worker[i][w].why = "shutdown" => stream[i].observed)
    /\ []<>(/\ \A h \in Conns :
                (root.closed /\ handler[h].pc # "none") => conn_scope[h].closed
            /\ \A i \in Streams :
                (stream[i].bridged /\ ParentClosed(i)) => stream_scope[i].closed
            /\ \A i \in Streams :
                (stream[i].bridged /\ stream_scope[i].closed) => WorkersSignalled(i))

\* C5: a receive that returned means every task under its scope returned:
\* main's for the whole process, a ConnectionHandler's for its sessions and
\* their workers, a session's for its workers.
RendezvousNeverEarly ==
    /\ main = "exit" => AllTasksReturned
    /\ \A h \in Conns : handler[h].pc = "done" =>
          \A i \in Streams : stream[i].parent = h =>
             stream[i].pc = "done" /\ WorkersReturned(i)
    /\ \A i \in Streams : stream[i].pc = "done" => WorkersReturned(i)

\* main passed its receive after a session bridged and both workers returned.
MainExitedAfterBridging ==
    /\ main = "exit"
    /\ \E i \in Streams : stream[i].bridged /\ \A w \in Workers : worker[i][w].pc = "done"

\* Stream i or one of its workers returns in this step.
TaskOfStreamReturns(i) ==
    \/ stream[i].pc # "done" /\ stream'[i].pc = "done"
    \/ \E w \in Workers : worker[i][w].pc # "done" /\ worker'[i][w].pc = "done"

\* C14: a worker that returned returned Ok, whatever made it return; and the
\* step in which a session or one of its workers returns, with an error or
\* without, leaves the acceptor and main where they are, closes neither the
\* process scope nor a connection scope, and closes no other session's scope.
ErrorsAreSwallowed ==
    /\ [](\A i \in Streams, w \in Workers :
             worker[i][w].pc = "done" => worker[i][w].result = "ok")
    /\ [][\A i \in Streams :
             TaskOfStreamReturns(i) =>
                /\ listener' = listener /\ main' = main
                /\ root'.closed = root.closed
                /\ \A h \in Conns :
                      conn_scope'[h].closed = conn_scope[h].closed
                         /\ handler'[h] = handler[h]
                /\ \A j \in Streams \ { i } :
                      stream_scope'[j].closed = stream_scope[j].closed]_vars

\* A session returned an error and a worker of another session returned on
\* a failed write, while the acceptor accepts, no scope above them is closed
\* and that other session is still bridging.
SessionFailedOthersRun ==
    /\ main = "select" /\ listener = "accept" /\ ~root.closed
    /\ \A h \in Conns : ~conn_scope[h].closed
    /\ \E i, j \in Streams :
          /\ i # j
          /\ stream[i].pc = "done" /\ stream[i].result = "err"
          /\ stream[j].pc = "select" /\ ~stream_scope[j].closed
          /\ \E w \in Workers : worker[j][w].pc = "done" /\ worker[j][w].why = "write"

\* C15: the concentrator's Listener::run never returns of its own: it ends
\* only by being dropped on the interrupt, and the process scope is closed
\* only by that interrupt.
AcceptorSurvivesConnectFailure ==
    role = "concentrator" =>
       /\ listener # "returned"
       /\ root.closed => listener = "dropped"

\* C18: a ConnectionHandler whose bi_streams returned None leaves its select
\* loop and closes its connection scope, the first step of its return,
\* whether the process is shut down or not.
ExhaustedHandlerReturns ==
    \A h \in Conns :
       handler[h].exhausted ~> (handler[h].pc # "select" /\ conn_scope[h].closed)

\* C26: a ConnectionHandler leaves its loop on an application-close with
\* Ok, on another connection error with an error, on the process shutdown
\* with Ok; and it has returned only with its broadcaster closed and every
\* session spawned from its connection returned.
HandlerReturnsAfterSessions ==
    \A h \in Conns :
       /\ handler[h].pc \in { "drop_tx", "recv", "done" } =>
             /\ handler[h].why \in { "closed", "error", "shutdown" }
             /\ handler[h].result = (IF handler[h].why = "error" THEN "err" ELSE "ok")
             /\ handler[h].why = "shutdown" => root.closed
             /\ conn_scope[h].closed
       /\ handler[h].pc = "done" =>
             /\ ~conn_scope[h].owner
             /\ \A i \in Streams :
                   stream[i].parent = h => stream[i].pc = "done"

\* A handler returned an error after a session of its connection, which had
\* bridged, observed the closing of the connection scope and returned.
HandlerReturnedError ==
    \E h \in Conns :
       /\ handler[h].pc = "done" /\ handler[h].why = "error"
       /\ handler[h].result = "err"
       /\ ~root.closed
       /\ \E i \in Streams :
             stream[i].parent = h /\ stream[i].bridged /\ stream[i].observed

\* C27, as stated: at the process scope, the connection scope and the
\* session scope alike, the owner's sender is dropped only after the
\* broadcaster is closed, and the receive is awaited only without it.
CloseDropAwaitEverywhere ==
    /\ ~root.owner => root.closed
    /\ main = "recv" => ~root.owner
    /\ \A h \in Conns :
          /\ ~conn_scope[h].owner => conn_scope[h].closed
          /\ handler[h].pc = "recv" => ~conn_scope[h].owner
    /\ \A i \in Streams :
          /\ ~stream_scope[i].owner => stream_scope[i].closed
          /\ stream[i].pc \in { "select", "wait" } => ~stream_scope[i].owner

\* C27, amended: main and the ConnectionHandler close their broadcaster,
\* then drop their sender, then await the receive.  The session drops its
\* sender when it has spawned its workers, with its broadcaster still open,
\* and awaits the receive beside the shutdown signal; it closes its
\* broadcaster when that signal comes and then awaits the receive alone.
\* No owner awaits its receive while it holds its sender.
CloseDropAwait ==
    /\ ~root.owner => root.closed
    /\ main = "recv" => ~root.owner
    /\ \A h \in Conns :
          /\ ~conn_scope[h].owner => conn_scope[h].closed
          /\ handler[h].pc = "recv" => ~conn_scope[h].owner
    /\ \A i \in Streams :
          /\ stream[i].pc \in { "select", "wait" } => ~stream_scope[i].owner
          /\ stream[i].pc = "wait" => stream_scope[i].closed
          /\ (~stream_scope[i].owner /\ ~stream_scope[i].closed) =>
                (stream[i].bridged /\ stream[i].pc = "select")
          /\ (stream_scope[i].closed /\ stream[i].pc # "done") => ParentClosed(i)

\* main, a ConnectionHandler and a session await their receives at once,
\* while another session bridges with its sender dropped and its
\* broadcaster open.
AllOwnersAwait ==
    /\ main = "recv"
    /\ \E h \in Conns :
          /\ handler[h].pc = "recv"
          /\ \E i, j \in Streams :
                /\ stream[i].parent = h /\ stream[i].pc = "wait"
                /\ stream[j].pc = "select" /\ ~stream_scope[j].owner
                /\ ~stream_scope[j].closed

\* ------------------------------------------------------------------ claims on the session
BothWorkersReturned(s) ==
    sess[s].bridged /\ t2q[s].pc = "done" /\ q2t[s].pc = "done"

\* The payload bytes the TCP peer of side s has written so far.
SentPayload(s) == SubSeq(Payload(s), 1, tcp[s].sent)

\* C1: in each direction the bytes written to the receiving TCP socket are at
\* all times a prefix of the payload bytes the sending TCP peer wrote, no
\* handshake byte among them, and are all of them once the direction ended
\* gracefully (TCP FIN -> finish -> stream finished).
PayloadIntegrity ==
    \A s \in Sides :
       /\ IsPrefix(tcp[Peer(s)].tx, SentPayload(s))
       /\ (t2q[s].why = "eof" /\ q2t[Peer(s)].why = "finished")
             => tcp[Peer(s)].tx = SentPayload(s)

\* C2: once both workers of a Bridging session have returned, exactly one
\* finish-or-reset was issued on the QUIC send half and exactly one shutdown
\* on the TCP write half, the worker's own call or the one the drop of the
\* half issues in its place.
ExactlyOneCloseEach ==
    \A s \in Sides :
       BothWorkersReturned(s) =>
          /\ ops[s].finish + ops[s].reset + ops[s].dropSend = 1
          /\ ops[s].shutdownWr + ops[s].dropWr = 1

\* C8: on the client, a handshake reply that is a read error, EOF or not
\* TCP_CONNECT_OK shuts both halves of the TCP socket down, spawns no worker,
\* forwards no byte of the local client, and the session reports no error.
ClientHandshakeFailure ==
    sess["I"].hs \in { "read_error", "eof", "not_ok" } =>
       /\ ops["I"].shutdownBoth = 1
       /\ ~sess["I"].bridged /\ t2q["I"].pc = "none" /\ q2t["I"].pc = "none"
       /\ \A i \in 1..Len(quic["I"].written) :
             \A j \in 1..Len(Payload("I")) : quic["I"].written[i] # Payload("I")[j]
       /\ sess["I"].pc = "done" /\ sess["I"].result = "ok"

\* The ERROR TLV carrying error code c.
ErrorTlv(c) == << TYPE_ERROR, 4 >> \o to_be_bytes(c)

\* C9: on the concentrator, a failed dial writes the ERROR TLV with code
\* network-failure (3), never TCP_CONNECT_OK, spawns no worker, and ends.
DialFailureReported ==
    sess["E"].hs = "dial_error" =>
       /\ quic["E"].written = ErrorTlv(ERROR_TYPE_NETWORK_FAILURE)
       /\ ~sess["E"].bridged /\ t2q["E"].pc = "none" /\ q2t["E"].pc = "none"
       /\ sess["E"].pc = "done"

\* C10: on the concentrator, a first message that does not decode as
\* TCP_CONNECT is answered with the ERROR TLV with code malformed-tlv (2)
\* before the session ends; nothing is dialled, no TCP_CONNECT_OK written.
MalformedTlvReported ==
    sess["E"].hs = "parse_error" =>
       /\ quic["E"].written = ErrorTlv(ERROR_TYPE_MALFORMED_TLV_RECV)
       /\ remote_addr = NoAddr /\ tcp["E"].peer = "none"
       /\ sess["E"].pc = "done"

WorkerRunning(s) ==
    t2q[s].pc \in { "select", "write", "finishing" } \/ q2t[s].pc \in { "select", "write" }

\* The first 20 bytes of the concentrator's buffer after a read of the first
\* n bytes of the client's stream: the bytes received, zeros after them.
ReceivedConnect(n) ==
    [i \in 1..TCP_CONNECT_LEN |-> IF i <= n THEN quic["I"].written[i] ELSE 0]

\* The handshake of side s succeeded, told from the streams and the socket.
\* The client encoded TCP_CONNECT for its destination, whatever is on its
\* send half begins with that TLV, and it read a reply that starts with
\* TCP_CONNECT_OK.  The concentrator read a message that starts with
\* TCP_CONNECT, dialled the address it parsed from the bytes of that read,
\* holds the connected TCP socket, and began its reply with TCP_CONNECT_OK.
HandshakeSucceeded(s) ==
    IF s = "I"
    THEN /\ ~is_multicast(tcp_dest_addr)
         /\ \/ quic["I"].written = << >>
            \/ IsPrefix(SubSeq(ClientBufConnect.buf, 1, ClientBufConnect.n),
                        quic["I"].written)
         /\ quic["E"].nread >= 1 /\ quic["E"].written[1] = TYPE_TCP_CONNECT_OK
    ELSE /\ quic["I"].nread >= 1 /\ quic["I"].written[1] = TYPE_TCP_CONNECT
         /\ \E n \in 1..quic["I"].nread :
               remote_addr = V6(SubSeq(ReceivedConnect(n), 5, 20),
                                ReceivedConnect(n)[3] * 256 + ReceivedConnect(n)[4])
         /\ tcp["E"].peer # "none"
         /\ quic["E"].written # << >> /\ quic["E"].written[1] = TYPE_TCP_CONNECT_OK

\* C6: the workers of a session are spawned only after its handshake
\* succeeded; a Bridging session never returns while one of its workers is
\* running; and once both workers have returned the session returns, with or
\* without a shutdown signal.
SessionLifecycle ==
    /\ [](\A s \in Sides :
             (t2q[s].pc # "none" \/ q2t[s].pc # "none") =>
                sess[s].bridged /\ HandshakeSucceeded(s))
    /\ [](\A s \in Sides :
             (sess[s].bridged /\ sess[s].pc = "done") => ~WorkerRunning(s))
    /\ \A s \in Sides : BothWorkersReturned(s) ~> (sess[s].pc = "done")

\* A Bridging session returned, both workers gone, no shutdown ever signalled.
ReturnedWithoutShutdown ==
    \E s \in Sides :
       /\ BothWorkersReturned(s) /\ sess[s].pc = "done"
       /\ ~scope[s].parentClosed
       /\ t2q[s].why # "shutdown" /\ q2t[s].why # "shutdown"

OwnReasons ==
    { "eof", "tcp_read_error", "quic_write_error",
      "finished", "quic_read_error", "tcp_write_error" }

ConfiguredConnect == SubSeq(ClientBufConnect.buf, 1, ClientBufConnect.n)

\* C11: the concentrator dials only after it received a complete 20-byte TLV
\* whose type byte is 0 and whose length byte is 20, and the address it
\* dials is the one those received bytes carry.
DialsOnlyReceivedConnect ==
    (sess["E"].pc \in { "dial", "write_ok", "write_error" }
        \/ sess["E"].hs \in { "dial_error", "write_error", "ok" }) =>
       /\ quic["I"].nread >= TCP_CONNECT_LEN
       /\ quic["I"].written[1] = TYPE_TCP_CONNECT
       /\ quic["I"].written[2] = TCP_CONNECT_LEN
       /\ remote_addr =
             V6(SubSeq(quic["I"].written, 5, 20),
                from_be_bytes(SubSeq(quic["I"].written, 3, 4)))

\* C12: a stream that finished with fewer than 20 bytes on it (none
\* included) ends the concentrator's session silently: nothing is dialled,
\* nothing is written to the send half, and the session reports no error.
EofBeforeTlvIsSilent ==
    (quic["I"].end = "fin" /\ Len(quic["I"].written) < TCP_CONNECT_LEN
        /\ sess["E"].pc \notin { "peer", "read" }) =>
       /\ remote_addr = NoAddr /\ tcp["E"].peer = "none"
       /\ quic["E"].written = << >>
       /\ ~sess["E"].bridged
       /\ sess["E"].pc = "done" /\ sess["E"].result = "ok"

\* C13: what a Bridging session has written to its send half is exactly one
\* TLV followed by payload of its TCP peer only: TCP_CONNECT for the
\* configured destination on the client, TCP_CONNECT_OK on the concentrator.
OneControlMessageBeforePayload ==
    /\ sess["I"].bridged =>
          \E k \in 0..Len(Payload("I")) :
             quic["I"].written = ConfiguredConnect \o SubSeq(Payload("I"), 1, k)
    /\ sess["E"].bridged =>
          \E k \in 0..Len(Payload("E")) :
             quic["E"].written =
                << TYPE_TCP_CONNECT_OK, 2 >> \o SubSeq(Payload("E"), 1, k)

\* ---------------------------------------------- claims on the accept loop
RECURSIVE Pow2(_)
Pow2(n) == IF n = 0 THEN 1 ELSE 2 * Pow2(n - 1)

\* acceptor.log holds, in order, the seconds of every sleep and a 0 for every
\* socket accepted.  The place of sleep j within its run of failures.
RECURSIVE SleepIndex(_, _)
SleepIndex(log, j) ==
    IF j = 0 \/ log[j] = 0 THEN 0 ELSE 1 + SleepIndex(log, j - 1)

\* C16: the k-th sleep of a run of consecutive accept failures lasts 2^(k-1)
\* seconds, no sleep lasts more than 64 seconds, and the first sleep after
\* an accepted socket lasts 1 second.
BackoffSchedule ==
    \A j \in 1..Len(acceptor.log) :
       acceptor.log[j] # 0 =>
          /\ acceptor.log[j] = Pow2(SleepIndex(acceptor.log, j) - 1)
          /\ acceptor.log[j] <= 64
          /\ (j > 1 /\ acceptor.log[j - 1] = 0) => acceptor.log[j] = 1

\* The acceptor slept 64 seconds, accepted a socket and then slept 1 second.
BackoffRestarted ==
    \E j, k \in 1..Len(acceptor.log) :
       /\ acceptor.log[j] = 64
       /\ j < k /\ acceptor.log[k] = 0
       /\ k < Len(acceptor.log) /\ acceptor.log[k + 1] = 1

\* The sleeps of the last n failures of the current call of accept.
LastSleeps(n) ==
    SubSeq(acceptor.log, Len(acceptor.log) - n + 1, Len(acceptor.log))

\* C17, as stated: accept returns its error on the 7th consecutive failure
\* and makes no 8th attempt.
SeventhFailureTerminates ==
    /\ acceptor.failures <= 7
    /\ (acceptor.pc = "returned" /\ acceptor.why = "accept") =>
          acceptor.failures = 7 /\ acceptor.attempts = 7

\* C17, amended: accept returns its error on the 8th consecutive failure,
\* after seven failures followed by sleeps of 1, 2, 4, 8, 16, 32 and 64
\* seconds; it never makes a 9th attempt and never returns the error sooner.
EighthFailureTerminates ==
    /\ acceptor.failures <= 8
    /\ acceptor.failures = 8 => acceptor.pc = "returned"
    /\ (acceptor.pc = "returned" /\ acceptor.why = "accept") =>
          /\ acceptor.failures = 8 /\ acceptor.attempts = 8
          /\ LastSleeps(7) = << 1, 2, 4, 8, 16, 32, 64 >>

\* accept returned its error after a socket had been accepted before.
AcceptGaveUp ==
    /\ acceptor.pc = "returned" /\ acceptor.why = "accept"
    /\ acceptor.failures = 8
    /\ acceptor.accepted > 0

\* --------------------------------------------------- claims on the codec
\* The wire form of the address of a destination.
WireIp(addr) == IF addr.v4 THEN Zeros(10) \o << 255, 255 >> \o addr.ip ELSE addr.ip

\* C19: for a destination that is not multicast and a buffer of 20 bytes or
\* more, the encoder succeeds, and the decoder applied to the 20 bytes it
\* wrote succeeds and returns the destination's port and its address as an
\* IPv6 address (IPv4-mapped when the destination is IPv4).
ConnectRoundTrip ==
    /\ (codec.pc # "new" /\ ~is_multicast(codec.addr) /\ Len(codec.buf) >= 20) =>
          codec.enc.ok /\ codec.enc.n = 20
    /\ codec.pc = "parsed" =>
          /\ codec.dec.ok
          /\ codec.dec.addr.port = codec.addr.port
          /\ ~codec.dec.addr.v4
          /\ codec.dec.addr.ip = WireIp(codec.addr)

\* The round trip of 10.0.0.1:8080, or of [::1]:65535, came back.
RoundTripDone ==
    /\ codec.pc = "parsed" /\ codec.dec.ok
    /\ codec.addr \in { V4(10, 0, 0, 1, 8080), V6(Zeros(15) \o << 1 >>, 65535) }

\* C20: the bytes new_tcp_connect writes: type 0, length 20, the port
\* big-endian, then for IPv4 ten zero bytes, FF FF and the four octets, for
\* IPv6 the sixteen octets; the rest of the buffer is left as it was.
ConnectWireLayout ==
    (codec.pc # "new" /\ codec.enc.ok) =>
       /\ codec.enc.n = 20
       /\ codec.buf[1] = 0 /\ codec.buf[2] = 20
       /\ codec.buf[3] = codec.addr.port \div 256
       /\ codec.buf[4] = codec.addr.port % 256
       /\ codec.addr.v4 =>
             /\ \A i \in 5..14 : codec.buf[i] = 0
             /\ codec.buf[15] = 255 /\ codec.buf[16] = 255
             /\ \A i \in 1..4 : codec.buf[16 + i] = codec.addr.ip[i]
       /\ ~codec.addr.v4 =>
             \A i \in 1..16 : codec.buf[4 + i] = codec.addr.ip[i]
       /\ codec.addr = V4(10, 0, 0, 1, 8080) =>
             SubSeq(codec.buf, 1, 20) =
                << 0, 20, 31, 144, 0, 0, 0, 0, 0, 0, 0, 0, 0, 0, 255, 255, 10, 0, 0, 1 >>

\* 10.0.0.1:8080 was encoded into a buffer longer than the TLV.
ConnectEncoded ==
    /\ codec.pc = "encoded" /\ codec.enc.ok
    /\ codec.addr = V4(10, 0, 0, 1, 8080)
    /\ Len(codec.buf) > 20

\* The address lies in 224.0.0.0/4 or in ff00::/8.
InMulticastRange(addr) ==
    IF addr.v4 THEN addr.ip[1] >= 224 /\ addr.ip[1] <= 239 ELSE addr.ip[1] = 255

\* C21: for a multicast destination the encoder fails and leaves the
\* caller's buffer as it was; a client session configured with it writes
\* nothing to the stream, spawns no worker and ends after the encoder.
MulticastRejected ==
    InMulticastRange(codec.addr) =>
       /\ codec.pc # "new" =>
             /\ ~codec.enc.ok
             /\ codec.buf = [i \in 1..Len(codec.buf) |-> codec.buf[1]]
             /\ codec.pc = "encoded"
       /\ tcp_dest_addr = codec.addr
       /\ quic["I"].written = << >>
       /\ ~sess["I"].bridged /\ t2q["I"].pc = "none" /\ q2t["I"].pc = "none"
       /\ sess["I"].pc \in { "connect", "done" }
       /\ sess["I"].pc = "done" =>
             sess["I"].hs = "encode_error" /\ sess["I"].result = "ok"

\* The encoder refused 239.255.255.255 on a buffer filled with AA, and the
\* session configured with it has ended.
MulticastRefused ==
    /\ codec.addr.v4 /\ codec.addr.ip = << 239, 255, 255, 255 >>
    /\ codec.pc = "encoded" /\ ~codec.enc.ok
    /\ Len(codec.buf) >= 20 /\ codec.buf[1] = 170
    /\ sess["I"].pc = "done"

\* C22: a loopback destination is encoded like any other unicast one: with
\* a buffer of 20 bytes or more the encoder succeeds and writes type 0,
\* length 20, the port and the address; the client writes that TLV to the
\* stream, and the decoder returns the loopback address to dial.
LoopbackPermitted ==
    is_loopback(codec.addr) =>
       /\ (codec.pc # "new" /\ Len(codec.buf) >= 20) =>
             /\ codec.enc.ok /\ codec.enc.n = 20
             /\ SubSeq(codec.buf, 1, 20) =
                   << 0, 20, codec.addr.port \div 256, codec.addr.port % 256 >>
                      \o WireIp(codec.addr)
       /\ codec.pc = "parsed" =>
             /\ codec.dec.ok
             /\ codec.dec.addr = V6(WireIp(codec.addr), codec.addr.port)
       /\ sess["I"].pc \in { "end", "reply" } =>
             IsPrefix(<< 0, 20, codec.addr.port \div 256, codec.addr.port % 256 >>
                         \o WireIp(codec.addr),
                      quic["I"].written)
       /\ sess["I"].hs # "encode_error"

\* 127.0.0.1:8080 was encoded and decoded, and the client has written it.
LoopbackRequested ==
    /\ codec.addr = V4(127, 0, 0, 1, 8080)
    /\ codec.pc = "parsed" /\ codec.dec.ok
    /\ sess["I"].pc = "reply" /\ Len(quic["I"].written) >= 20

\* C23: new_tcp_connect returns an error for a loopback destination.
LoopbackRejected ==
    (codec.pc # "new" /\ is_loopback(codec.addr)) => ~codec.enc.ok

\* ---------------------------------------------- claims on the bridge workers
\* C24: TcpToQuic leaves its loop in one of four ways: on a TCP read of 0
\* bytes (nothing left to deliver, and the FIN received or the error of a
\* reset already reported) with one finish and no reset; on a TCP read error
\* (the read takes the error of the reset) with one reset and no finish; on
\* the shutdown signal with one finish; on a failed QUIC write with neither,
\* the send half dropped as it is.  That step writes nothing to the stream.
\* After a finish the worker only awaits it and returns; from the event on
\* it neither reads the socket nor writes nor closes again.
TcpToQuicCloseActions ==
    [][\A s \in Sides :
          /\ (t2q[s].pc \in { "select", "write" }
                /\ t2q'[s].pc \in { "finishing", "done" }) =>
                /\ quic'[s].written = quic[s].written
                /\ tcp'[s].rx = tcp[s].rx
                /\ \/ /\ t2q[s].pc = "select" /\ t2q'[s].pc = "finishing"
                      /\ t2q'[s].why = "eof"
                      /\ tcp[s].rx = << >>
                      /\ tcp[s].eof \/ (tcp[s].peer = "rst" /\ ~tcp[s].err)
                      /\ ops'[s].finish = ops[s].finish + 1
                      /\ ops'[s].reset = ops[s].reset
                      /\ ops'[s].dropSend = ops[s].dropSend
                      /\ quic'[s].end = "fin"
                   \/ /\ t2q[s].pc = "select" /\ t2q'[s].pc = "done"
                      /\ t2q'[s].why = "tcp_read_error"
                      /\ tcp[s].rx = << >> /\ ~tcp[s].eof
                      /\ tcp[s].peer = "rst" /\ tcp[s].err /\ ~tcp'[s].err
                      /\ ops'[s].reset = ops[s].reset + 1
                      /\ ops'[s].finish = ops[s].finish
                      /\ ops'[s].dropSend = ops[s].dropSend
                      /\ quic'[s].end = "rst"
                   \/ /\ t2q[s].pc = "select" /\ t2q'[s].pc = "finishing"
                      /\ t2q'[s].why = "shutdown"
                      /\ scope[s].notifyClosed
                      /\ ops'[s].finish = ops[s].finish + 1
                      /\ ops'[s].reset = ops[s].reset
                      /\ ops'[s].dropSend = ops[s].dropSend
                      /\ quic'[s].end = "fin"
                   \/ /\ t2q[s].pc = "write" /\ t2q'[s].pc = "done"
                      /\ t2q'[s].why = "quic_write_error"
                      /\ quic[s].stopped
                      /\ ops'[s].finish = ops[s].finish
                      /\ ops'[s].reset = ops[s].reset
                      /\ ops'[s].dropSend = ops[s].dropSend + 1
          /\ t2q[s].pc \in { "finishing", "done" } =>
                /\ \/ t2q'[s] = t2q[s]
                   \/ /\ t2q[s].pc = "finishing"
                      /\ t2q'[s] = [t2q[s] EXCEPT !.pc = "done"]
                /\ tcp'[s].rx = tcp[s].rx
                /\ quic'[s].written = quic[s].written
                /\ quic'[s].end = quic[s].end
                /\ ops'[s].finish = ops[s].finish /\ ops'[s].reset = ops[s].reset
                /\ ops'[s].dropSend = ops[s].dropSend]_vars

\* TcpToQuic returned on a TCP read error with one reset and no finish, and
\* the session has returned since.
ResetOnTcpReadError ==
    \E s \in Sides :
       /\ t2q[s].pc = "done" /\ t2q[s].why = "tcp_read_error"
       /\ ops[s].reset = 1 /\ ops[s].finish = 0 /\ ops[s].dropSend = 0
       /\ quic[s].end = "rst"
       /\ sess[s].pc = "done"

\* C25: QuicToTcp returns in one of four ways: on the finished stream or on
\* a QUIC read error after it called shutdown on the TCP write half; on a
\* failed TCP write or on the shutdown signal after it called stop on the
\* recv half, and there the only shutdown of the write half is the one its
\* drop issues.  At the shutdown after a finish the socket holds every byte
\* the worker read, the end of what the peer sent; a returned worker reads
\* no more and calls nothing more.
QuicToTcpCloseActions ==
    /\ [](\A s \in Sides :
             q2t[s].why = "finished" =>
                /\ QuicAvail(Peer(s)) = 0
                /\ \E k \in 1..Len(quic[Peer(s)].written) :
                      tcp[s].tx = SubSeq(quic[Peer(s)].written, k + 1,
                                         Len(quic[Peer(s)].written)))
    /\ [][\A s \in Sides :
             /\ (q2t[s].pc # "done" /\ q2t'[s].pc = "done") =>
                   /\ tcp'[s].tx = tcp[s].tx
                   /\ quic'[Peer(s)].nread = quic[Peer(s)].nread
                   /\ \/ /\ q2t[s].pc = "select" /\ q2t'[s].why = "finished"
                         /\ quic[Peer(s)].end = "fin" /\ QuicAvail(Peer(s)) = 0
                         /\ ops'[s].shutdownWr = ops[s].shutdownWr + 1
                         /\ ops'[s].dropWr \in { ops[s].dropWr, ops[s].dropWr + 1 }
                         /\ ops'[s].stop = ops[s].stop
                      \/ /\ q2t[s].pc = "select" /\ q2t'[s].why = "quic_read_error"
                         /\ quic[Peer(s)].end = "rst"
                         /\ ops'[s].shutdownWr = ops[s].shutdownWr + 1
                         /\ ops'[s].dropWr \in { ops[s].dropWr, ops[s].dropWr + 1 }
                         /\ ops'[s].stop = ops[s].stop
                      \/ /\ q2t[s].pc = "write" /\ q2t'[s].why = "tcp_write_error"
                         /\ tcp[s].peer = "rst"
                         /\ ops'[s].stop = ops[s].stop + 1
                         /\ ops'[s].shutdownWr = ops[s].shutdownWr
                         /\ ops'[s].dropWr = ops[s].dropWr + 1
                         /\ quic'[Peer(s)].stopped
                      \/ /\ q2t[s].pc = "select" /\ q2t'[s].why = "shutdown"
                         /\ scope[s].notifyClosed
                         /\ ops'[s].stop = ops[s].stop + 1
                         /\ ops'[s].shutdownWr = ops[s].shutdownWr
                         /\ ops'[s].dropWr = ops[s].dropWr + 1
                         /\ quic'[Peer(s)].stopped
             /\ q2t[s].pc = "done" =>
                   /\ q2t'[s] = q2t[s]
                   /\ tcp'[s].tx = tcp[s].tx
                   /\ quic'[Peer(s)].nread = quic[Peer(s)].nread
                   /\ ops'[s].shutdownWr = ops[s].shutdownWr
                   /\ ops'[s].dropWr = ops[s].dropWr
                   /\ ops'[s].stop = ops[s].stop]_vars

\* QuicToTcp wrote every payload byte of the peer to the socket, the last
\* one last, and then returned on the finished stream after its shutdown of
\* the TCP write half, with no stop.
ShutdownAfterLastChunk ==
    \E s \in Sides :
       /\ q2t[s].pc = "done" /\ q2t[s].why = "finished"
       /\ Len(tcp[s].tx) >= MaxQuicPayload
       /\ \A i \in 1..MaxQuicPayload :
             tcp[s].tx[Len(tcp[s].tx) - MaxQuicPayload + i] = QuicPayload[i][1]
       /\ ops[s].shutdownWr = 1 /\ ops[s].stop = 0
       /\ tcp[s].shut

\* C28: a worker holds a chunk exactly while it writes it.  From there its
\* next step either appends the whole chunk to the opposite write half or
\* is the return on a write that failed; until then it neither reads nor
\* closes, whether the shutdown signal has come or not.  The chunk it holds
\* is what its read took from the input, after a reset of the socket too.
NoChunkDiscarded ==
    /\ [](\A s \in Sides :
             /\ t2q[s].pc = "write" <=> t2q[s].buf # << >>
             /\ q2t[s].pc = "write" <=> q2t[s].buf # << >>)
    /\ [][\A s \in Sides :
             /\ (t2q[s].pc = "select" /\ t2q'[s].pc = "write") =>
                   /\ t2q'[s].buf # << >>
                   /\ tcp[s].rx = t2q'[s].buf \o tcp'[s].rx
             /\ t2q[s].pc = "write" =>
                   \/ /\ t2q'[s] = t2q[s]
                      /\ quic'[s].written = quic[s].written
                      /\ quic'[s].end = quic[s].end
                      /\ IsPrefix(tcp[s].rx, tcp'[s].rx)
                      /\ ops'[s].finish = ops[s].finish /\ ops'[s].reset = ops[s].reset
                      /\ ops'[s].dropSend = ops[s].dropSend
                   \/ /\ t2q'[s].pc = "select"
                      /\ quic'[s].written = quic[s].written \o t2q[s].buf
                   \/ /\ t2q'[s].pc = "done" /\ t2q'[s].why = "quic_write_error"
                      /\ quic[s].stopped
             /\ (q2t[s].pc = "select" /\ q2t'[s].pc = "write") =>
                   /\ q2t'[s].buf # << >>
                   /\ q2t'[s].buf = SubSeq(quic[Peer(s)].written,
                                           quic[Peer(s)].nread + 1, quic'[Peer(s)].nread)
             /\ q2t[s].pc = "write" =>
                   \/ /\ q2t'[s] = q2t[s]
                      /\ tcp'[s].tx = tcp[s].tx
                      /\ quic'[Peer(s)].nread = quic[Peer(s)].nread
                      /\ ops'[s].shutdownWr = ops[s].shutdownWr
                      /\ ops'[s].dropWr = ops[s].dropWr
                      /\ ops'[s].stop = ops[s].stop
                   \/ /\ q2t'[s].pc = "select"
                      /\ tcp'[s].tx = tcp[s].tx \o q2t[s].buf
                   \/ /\ q2t'[s].pc = "done" /\ q2t'[s].why = "tcp_write_error"
                      /\ tcp[s].peer = "rst"]_vars

\* The shutdown signal has come while TcpToQuic holds a chunk: QuicToTcp has
\* returned on the signal and TcpToQuic still holds, to write it, the chunk
\* its read took from the socket after the peer reset the connection.
ChunkHeldAtShutdown ==
    \E s \in Sides :
       /\ scope[s].notifyClosed
       /\ q2t[s].pc = "done" /\ q2t[s].why = "shutdown"
       /\ tcp[s].peer = "rst"
       /\ t2q[s].pc = "write" /\ t2q[s].buf = << Payload(s)[1] >>

\* C29: over the whole life of a session at most one finish-or-reset is
\* issued on the send half, at most one shutdown on the write direction of
\* the TCP socket (shutdown of the write half or of both, the worker's call
\* or the drop's), at most one stop on the recv half; and once a half is
\* closed nothing more is written to it.
NoHalfClosedTwice ==
    /\ [](\A s \in Sides :
             /\ ops[s].finish + ops[s].reset + ops[s].dropSend <= 1
             /\ ops[s].shutdownWr + ops[s].shutdownBoth + ops[s].dropWr <= 1
             /\ ops[s].stop <= 1)
    /\ [][\A s \in Sides :
             /\ ops[s].finish + ops[s].reset + ops[s].dropSend >= 1 =>
                   quic'[s].written = quic[s].written
             /\ ops[s].shutdownWr + ops[s].shutdownBoth + ops[s].dropWr >= 1 =>
                   tcp'[s].tx = tcp[s].tx]_vars

====
